---------------------------- MODULE Spec2Model ----------------------------
(***************************************************************************)
(* Lifecycle model of the MyCyclingCity ESP32 tachometer firmware          *)
(* (mcc-esp32/src: main.cpp, device_management.cpp, configserver.cpp,      *)
(* rfid_mfrc522_control.cpp).                                              *)
(*                                                                         *)
(* Build modelled: ENABLE_RFID defined, no DEFAULT_* build flags, no       *)
(* PIO_BUILD_TEST_MODE.  The OLED, LED and buzzer calls are left out, but  *)
(* for the speed timeout of display_Data().  Time is the value of millis();*)
(* one pass of loop() reads a single value of it.  The persisted store     *)
(* behaves as the repository's Preferences class (test/mocks): begin() and *)
(* end() do not change what get/put do.                                    *)
(*                                                                         *)
(* Sequential code is written as operators from a state record to the set  *)
(* of the states it can end in; the set has more than one element where    *)
(* the code consumes an answer of the environment (HTTP response, WiFi     *)
(* association, RFID reader).                                              *)
(***************************************************************************)
EXTENDS Integers, Sequences, FiniteSets, TLC

\* ------------------------------------------------------------------ bounds
MaxPulses == 1
MaxTime == 310000
MaxWifiDrops == 1
MaxIntervals == 2
\* wheel turns of a ride, and the time a ride is followed for
MaxTurns == 2
MaxRideTime == 20000

\* ------------------------------------------------------- program constants
CONFIG_TIMEOUT_SEC == 300
serverErrorBackoffInterval == 60000
SPEED_TIMEOUT_MS == 5000
SPEED_AVERAGE_COUNT == 5
DefaultWheelSize == 2075
DefaultSendInterval == 30
DefaultConfigFetchInterval == 3600
DefaultDeepSleepTimeout == 300
WheelMin == 500
WheelMax == 3000
MinAPPasswordLen == 8
MaxWifiAttempts == 3
RECONNECT_INTERVAL_MS == 30000
\* the longest a failing connectToWiFi() blocks: delay(2000), 20 polls of
\* 500 ms, delay(2000)
ConnectBlockMillis == 2000 + 20 * 500 + 2000
\* millis() when setup() returns: the delay() calls of setup() before loop()
SetupMillis == 1000 + 1000 + 1000

\* a key that is not in the store (numeric and boolean keys);
\* string keys are read with default "", so "" stands for an absent string
NoKey == 0 - 1
\* a form field or JSON key that is not in the request / response
NoArg == 0 - 1
NoStr == "<none>"

\* ------------------------------------------------------------ value sets
Names == {"alice"}
TagIds == {"T1"}

Bind(S, F(_)) == UNION {F(x) : x \in S}

\* ------------------------------------------------------------ the state
VARIABLES
    pc,                     \* "boot" | "run" | "sleep"
    now,                    \* millis()
    wakeup_reason,          \* esp_sleep_get_wakeup_cause(): "EXT0" | "OTHER"
    preferences,            \* persisted store (namespace bike-tacho)
    pcnt,                   \* hardware pulse counter PCNT_UNIT_0
    env,                    \* what surrounds the device: see Environments
    wifiStatus,             \* WiFi.status(): "WL_CONNECTED" | "WL_DISCONNECTED"
    apActive,               \* config web server and soft access point running
    wasConfigExit,          \* local of setup(): the configExit flag as read
    configMode, configModeForced, configModeStartTime,
    idTagAtConfigStart, idTagAtConfigStartInitialized,
    wifi_ssid, idTag, username, lastSentIdTag,
    lastServerErrorTime, apiKeyErrorActive, wifiConnectAttempts,
    wheel_size, serverUrl, apiKey, sendInterval_sec,
    testActive, debugEnabled, deepSleepTimeout_sec, DeepSleep,
    configFetchInterval_sec, lastConfigFetchTime,
    currentPulseCount, lastPulseCount, totalDistance_mm,
    distanceInInterval_mm, pulsesAtLastSend,
    lastDataSendTime, lastPulseTime, previousPulseTime,
    speedHistory, speedHistoryIndex, speedHistoryCount, currentSpeed_kmh,
    \* history variables (not program state)
    calls,                  \* requests and reader events of the last step
    fetched,                \* config object of the last applied fetch response
    tagPresented,           \* a card was read since ConfigMode was entered
    resolvedFor,            \* rider id whose lookup produced username
    countersOwner,          \* rider id active at the last counter reset
    blockedUnsent,          \* pulses in pcnt that came while no rider was valid
    keyTest,                \* candidate key and HTTP code of the last testApiKey()
    deviceName,             \* device name in RAM
    lastErrorOp,            \* the request whose answer set lastServerErrorTime
    sleepCheck,             \* what the deep sleep check of the last step decided on
    saved,                  \* the form of the save request the last step handled
    idTagFromRFID,          \* the current idTag came from the RFID reader
    normalSince,            \* time at which ConfigMode was left, 0 if it never was
    wifiDrops               \* number of connection losses so far

vars == <<pc, now, wakeup_reason, preferences, pcnt, env, wifiStatus,
          apActive, wasConfigExit, configMode, configModeForced,
          configModeStartTime, idTagAtConfigStart,
          idTagAtConfigStartInitialized, wifi_ssid, idTag, username,
          lastSentIdTag, lastServerErrorTime, apiKeyErrorActive,
          wifiConnectAttempts, wheel_size, serverUrl, apiKey,
          sendInterval_sec, testActive, debugEnabled, deepSleepTimeout_sec,
          DeepSleep, configFetchInterval_sec, lastConfigFetchTime,
          currentPulseCount, lastPulseCount, totalDistance_mm,
          distanceInInterval_mm, pulsesAtLastSend, lastDataSendTime,
          lastPulseTime, previousPulseTime, speedHistory, speedHistoryIndex,
          speedHistoryCount, currentSpeed_kmh, calls, fetched, tagPresented,
          resolvedFor, countersOwner, blockedUnsent,
          keyTest, deviceName,
          lastErrorOp,
          sleepCheck,
          saved,
          idTagFromRFID,
          normalSince,
          wifiDrops>>

\* the current state as a record, and the step that installs a record
St ==
    [pc |-> pc, now |-> now, wakeup_reason |-> wakeup_reason,
     preferences |-> preferences, pcnt |-> pcnt, env |-> env,
     wifiStatus |-> wifiStatus, apActive |-> apActive,
     wasConfigExit |-> wasConfigExit, configMode |-> configMode,
     configModeForced |-> configModeForced,
     configModeStartTime |-> configModeStartTime,
     idTagAtConfigStart |-> idTagAtConfigStart,
     idTagAtConfigStartInitialized |-> idTagAtConfigStartInitialized,
     wifi_ssid |-> wifi_ssid, idTag |-> idTag, username |-> username,
     lastSentIdTag |-> lastSentIdTag,
     lastServerErrorTime |-> lastServerErrorTime,
     apiKeyErrorActive |-> apiKeyErrorActive,
     wifiConnectAttempts |-> wifiConnectAttempts, wheel_size |-> wheel_size,
     serverUrl |-> serverUrl, apiKey |-> apiKey,
     sendInterval_sec |-> sendInterval_sec, testActive |-> testActive,
     debugEnabled |-> debugEnabled,
     deepSleepTimeout_sec |-> deepSleepTimeout_sec, DeepSleep |-> DeepSleep,
     configFetchInterval_sec |-> configFetchInterval_sec,
     lastConfigFetchTime |-> lastConfigFetchTime,
     currentPulseCount |-> currentPulseCount,
     lastPulseCount |-> lastPulseCount, totalDistance_mm |-> totalDistance_mm,
     distanceInInterval_mm |-> distanceInInterval_mm,
     pulsesAtLastSend |-> pulsesAtLastSend,
     lastDataSendTime |-> lastDataSendTime, lastPulseTime |-> lastPulseTime,
     previousPulseTime |-> previousPulseTime, speedHistory |-> speedHistory,
     speedHistoryIndex |-> speedHistoryIndex,
     speedHistoryCount |-> speedHistoryCount,
     currentSpeed_kmh |-> currentSpeed_kmh, calls |-> calls,
     fetched |-> fetched, tagPresented |-> tagPresented,
     resolvedFor |-> resolvedFor, countersOwner |-> countersOwner,
     blockedUnsent |-> blockedUnsent,
     keyTest |-> keyTest, deviceName |-> deviceName,
     lastErrorOp |-> lastErrorOp,
     sleepCheck |-> sleepCheck,
     saved |-> saved,
     idTagFromRFID |-> idTagFromRFID,
     normalSince |-> normalSince,
     wifiDrops |-> wifiDrops]

Commit(s) ==
    /\ pc' = s.pc
    /\ now' = s.now
    /\ wakeup_reason' = s.wakeup_reason
    /\ preferences' = s.preferences
    /\ pcnt' = s.pcnt
    /\ env' = s.env
    /\ wifiStatus' = s.wifiStatus
    /\ apActive' = s.apActive
    /\ wasConfigExit' = s.wasConfigExit
    /\ configMode' = s.configMode
    /\ configModeForced' = s.configModeForced
    /\ configModeStartTime' = s.configModeStartTime
    /\ idTagAtConfigStart' = s.idTagAtConfigStart
    /\ idTagAtConfigStartInitialized' = s.idTagAtConfigStartInitialized
    /\ wifi_ssid' = s.wifi_ssid
    /\ idTag' = s.idTag
    /\ username' = s.username
    /\ lastSentIdTag' = s.lastSentIdTag
    /\ lastServerErrorTime' = s.lastServerErrorTime
    /\ apiKeyErrorActive' = s.apiKeyErrorActive
    /\ wifiConnectAttempts' = s.wifiConnectAttempts
    /\ wheel_size' = s.wheel_size
    /\ serverUrl' = s.serverUrl
    /\ apiKey' = s.apiKey
    /\ sendInterval_sec' = s.sendInterval_sec
    /\ testActive' = s.testActive
    /\ debugEnabled' = s.debugEnabled
    /\ deepSleepTimeout_sec' = s.deepSleepTimeout_sec
    /\ DeepSleep' = s.DeepSleep
    /\ configFetchInterval_sec' = s.configFetchInterval_sec
    /\ lastConfigFetchTime' = s.lastConfigFetchTime
    /\ currentPulseCount' = s.currentPulseCount
    /\ lastPulseCount' = s.lastPulseCount
    /\ totalDistance_mm' = s.totalDistance_mm
    /\ distanceInInterval_mm' = s.distanceInInterval_mm
    /\ pulsesAtLastSend' = s.pulsesAtLastSend
    /\ lastDataSendTime' = s.lastDataSendTime
    /\ lastPulseTime' = s.lastPulseTime
    /\ previousPulseTime' = s.previousPulseTime
    /\ speedHistory' = s.speedHistory
    /\ speedHistoryIndex' = s.speedHistoryIndex
    /\ speedHistoryCount' = s.speedHistoryCount
    /\ currentSpeed_kmh' = s.currentSpeed_kmh
    /\ calls' = s.calls
    /\ fetched' = s.fetched
    /\ tagPresented' = s.tagPresented
    /\ resolvedFor' = s.resolvedFor
    /\ countersOwner' = s.countersOwner
    /\ blockedUnsent' = s.blockedUnsent
    /\ keyTest' = s.keyTest
    /\ deviceName' = s.deviceName
    /\ lastErrorOp' = s.lastErrorOp
    /\ sleepCheck' = s.sleepCheck
    /\ saved' = s.saved
    /\ idTagFromRFID' = s.idTagFromRFID
    /\ normalSince' = s.normalSince
    /\ wifiDrops' = s.wifiDrops

\* the state is the record s
Is(s) ==
    /\ pc = s.pc
    /\ now = s.now
    /\ wakeup_reason = s.wakeup_reason
    /\ preferences = s.preferences
    /\ pcnt = s.pcnt
    /\ env = s.env
    /\ wifiStatus = s.wifiStatus
    /\ apActive = s.apActive
    /\ wasConfigExit = s.wasConfigExit
    /\ configMode = s.configMode
    /\ configModeForced = s.configModeForced
    /\ configModeStartTime = s.configModeStartTime
    /\ idTagAtConfigStart = s.idTagAtConfigStart
    /\ idTagAtConfigStartInitialized = s.idTagAtConfigStartInitialized
    /\ wifi_ssid = s.wifi_ssid
    /\ idTag = s.idTag
    /\ username = s.username
    /\ lastSentIdTag = s.lastSentIdTag
    /\ lastServerErrorTime = s.lastServerErrorTime
    /\ apiKeyErrorActive = s.apiKeyErrorActive
    /\ wifiConnectAttempts = s.wifiConnectAttempts
    /\ wheel_size = s.wheel_size
    /\ serverUrl = s.serverUrl
    /\ apiKey = s.apiKey
    /\ sendInterval_sec = s.sendInterval_sec
    /\ testActive = s.testActive
    /\ debugEnabled = s.debugEnabled
    /\ deepSleepTimeout_sec = s.deepSleepTimeout_sec
    /\ DeepSleep = s.DeepSleep
    /\ configFetchInterval_sec = s.configFetchInterval_sec
    /\ lastConfigFetchTime = s.lastConfigFetchTime
    /\ currentPulseCount = s.currentPulseCount
    /\ lastPulseCount = s.lastPulseCount
    /\ totalDistance_mm = s.totalDistance_mm
    /\ distanceInInterval_mm = s.distanceInInterval_mm
    /\ pulsesAtLastSend = s.pulsesAtLastSend
    /\ lastDataSendTime = s.lastDataSendTime
    /\ lastPulseTime = s.lastPulseTime
    /\ previousPulseTime = s.previousPulseTime
    /\ speedHistory = s.speedHistory
    /\ speedHistoryIndex = s.speedHistoryIndex
    /\ speedHistoryCount = s.speedHistoryCount
    /\ currentSpeed_kmh = s.currentSpeed_kmh
    /\ calls = s.calls
    /\ fetched = s.fetched
    /\ tagPresented = s.tagPresented
    /\ resolvedFor = s.resolvedFor
    /\ countersOwner = s.countersOwner
    /\ blockedUnsent = s.blockedUnsent
    /\ keyTest = s.keyTest
    /\ deviceName = s.deviceName
    /\ lastErrorOp = s.lastErrorOp
    /\ sleepCheck = s.sleepCheck
    /\ saved = s.saved
    /\ idTagFromRFID = s.idTagFromRFID
    /\ normalSince = s.normalSince
    /\ wifiDrops = s.wifiDrops

\* --------------------------------------------------- the persisted store
\* Preferences::getUInt / getFloat / getBool with a default value
getNum(v, def) == IF v = NoKey THEN def ELSE v
getBool(v, def) == IF v = NoKey THEN def ELSE v = 1
boolNum(b) == IF b THEN 1 ELSE 0

\* a logged request or reader event; errorAge: the time since the last
\* server error, NoArg when none is pending, errorOp: the request it answered
Call(op, tag, n, s) ==
    [op |-> op, id_tag |-> tag, pulses |-> n,
     owner |-> s.countersOwner, nameFor |-> s.resolvedFor,
     blocked |-> s.blockedUnsent, apiKeyError |-> s.apiKeyErrorActive,
     errorAge |-> IF s.lastServerErrorTime > 0
                  THEN s.now - s.lastServerErrorTime ELSE NoArg,
     errorOp |-> s.lastErrorOp, code |-> NoArg,
     keyErrorBefore |-> s.apiKeyErrorActive, body |-> "", ret |-> ""]
\* the steps the properties below speak about are recorded
Recorded ==
    {"send", "save", "exit_tag_change", "exit_timeout", "exit_pulse",
     "timeout_rearm"}
Log(s, op, tag, n) ==
    IF op \in Recorded \cup s.env.observed THEN [s EXCEPT !.calls = Append(@, Call(op, tag, n, s))]
    ELSE s
\* the answer to a request, logged when the code has acted on it; before:
\* apiKeyErrorActive when the request was made
LogAnswer(s, op, tag, code, before) ==
    IF op \in s.env.observed
    THEN [s EXCEPT !.calls = Append(@, [Call(op, tag, 0, s) EXCEPT
                                         !.code = code,
                                         !.keyErrorBefore = before])]
    ELSE s
\* the answer to a rider query: the HTTP status, what the body holds and the
\* string getUserIdFromTag() returned for it
LogUserAnswer(s, tag, r, before, ret) ==
    IF "getuser_answer" \in s.env.observed
    THEN [s EXCEPT !.calls = Append(@, [Call("getuser_answer", tag, 0, s) EXCEPT
                                         !.code = r.code,
                                         !.keyErrorBefore = before,
                                         !.body = r.body, !.ret = ret])]
    ELSE s
Issued(op) == \E i \in 1..Len(calls) : calls[i].op = op


Alive(s) == s.pc \in {"setup", "run"}
\* run F on every state of S in which the program is still executing
Then(S, F(_)) == UNION {IF Alive(s) THEN F(s) ELSE {s} : s \in S}

\* ------------------------------------------- answers of the environment
\* POST /api/get-user-id
UserResponses ==
    {[code |-> 200, body |-> "user_id", user_id |-> n] : n \in Names}
    \cup {[code |-> c, body |-> "", user_id |-> ""] : c \in {404, 401, 500}}
\* POST /api/update-data: HTTP status, or a negative HTTPClient error
SendCodes == {200, 204, 401, 500}
\* WiFi.begin() followed by the status polls
ConnectOutcomes(s) ==
    IF s.wifi_ssid = "" \/ ~s.env.accessPoint THEN {"WL_DISCONNECTED"}
    ELSE {"WL_CONNECTED", "WL_DISCONNECTED"}
\* firmware/info and firmware/download: no update, a download that fails,
\* a download that is installed
FirmwareOutcomes(s) ==
    IF s.env.updateFails THEN {"fail"}
    ELSE IF s.env.firmwareImage THEN {"none", "fail", "installed"}
    ELSE {"none"}

\* the config object of a fetch response; NoArg / NoStr: key not present
NoConfig ==
    [default_id_tag |-> NoStr, send_interval_seconds |-> NoArg,
     server_url |-> NoStr, wheel_size |-> NoArg, debug_mode |-> NoArg,
     test_mode |-> NoArg, deep_sleep_seconds |-> NoArg, ap_password |-> NoStr,
     device_api_key |-> NoStr, config_fetch_interval_seconds |-> NoArg,
     device_name |-> NoStr]
\* a fetch answer: usable (HTTP 200, parsed, "success" present) or not,
\* the success flag, whether "config" is present, and the config object
FetchAnswer(usable, success, hasConfig, cfg) ==
    [usable |-> usable, success |-> success, hasConfig |-> hasConfig,
     config |-> cfg]
FetchResponses ==
    {FetchAnswer(FALSE, FALSE, FALSE, NoConfig),
     FetchAnswer(TRUE, TRUE, FALSE, NoConfig),
     FetchAnswer(TRUE, TRUE, TRUE, [NoConfig EXCEPT !.default_id_tag = "D2"])}
\* the answers the server of the scenario can give: env.serverConfigs are
\* the config objects an operator has set for the device on the server
ServerFetchResponses(s) ==
    FetchResponses
    \cup {FetchAnswer(TRUE, TRUE, TRUE, cfg) : cfg \in s.env.serverConfigs}

\* the fields of a save request; NoStr / NoArg: argument not sent
NoForm ==
    [wifi_ssid |-> NoStr, deviceName |-> NoStr, idTag |-> NoStr,
     wheel_size |-> NoArg,
     serverUrl |-> NoStr, apiKey |-> NoStr, ap_password |-> NoStr,
     sendInterval |-> NoArg, deepSleepTimeout |-> NoArg,
     debugEnabled |-> TRUE, testModeEnabled |-> FALSE]
\* no deep sleep check was made
NoSleepCheck == [configMode |-> FALSE, timeout |-> 0, idle |-> 0, pin |-> "unread"]

\* ------------------------------------------------ static initial values
\* the globals as the definitions of main.cpp initialise them; what a
\* restart or a wake from deep sleep leaves of the state s
StaticInit ==
    [pc |-> "boot", now |-> 0, wakeup_reason |-> "OTHER",
     preferences |-> <<>>, pcnt |-> 0, env |-> <<>>,
     wifiStatus |-> "WL_DISCONNECTED", apActive |-> FALSE,
     wasConfigExit |-> FALSE, configMode |-> FALSE,
     configModeForced |-> FALSE, configModeStartTime |-> 0,
     idTagAtConfigStart |-> "", idTagAtConfigStartInitialized |-> FALSE,
     wifi_ssid |-> "", idTag |-> "", username |-> "", lastSentIdTag |-> "",
     lastServerErrorTime |-> 0, apiKeyErrorActive |-> FALSE,
     wifiConnectAttempts |-> 0, wheel_size |-> DefaultWheelSize,
     serverUrl |-> "", apiKey |-> "",
     sendInterval_sec |-> DefaultSendInterval, testActive |-> FALSE,
     debugEnabled |-> TRUE,
     deepSleepTimeout_sec |-> DefaultDeepSleepTimeout, DeepSleep |-> TRUE,
     configFetchInterval_sec |-> DefaultConfigFetchInterval,
     lastConfigFetchTime |-> 0, currentPulseCount |-> 0,
     lastPulseCount |-> 0, totalDistance_mm |-> 0,
     distanceInInterval_mm |-> 0, pulsesAtLastSend |-> 0,
     lastDataSendTime |-> 0, lastPulseTime |-> 0, previousPulseTime |-> 0,
     speedHistory |-> <<0, 0, 0, 0, 0>>, speedHistoryIndex |-> 0,
     speedHistoryCount |-> 0, currentSpeed_kmh |-> 0,
     calls |-> <<>>, fetched |-> NoConfig, tagPresented |-> FALSE,
     resolvedFor |-> "", countersOwner |-> "", blockedUnsent |-> 0,
     keyTest |-> [key |-> NoStr, code |-> 0],
     deviceName |-> "",
     lastErrorOp |-> "",
     sleepCheck |-> NoSleepCheck,
     saved |-> NoForm,
     idTagFromRFID |-> FALSE,
     normalSince |-> 0,
     wifiDrops |-> 0]

\* ESP.restart() or a wake from deep sleep: the store, the pulse counter and
\* the requests already made are what is left of the state s
Reboot(s, cause) ==
    [StaticInit EXCEPT
       !.wakeup_reason = cause, !.preferences = s.preferences,
       !.pcnt = s.pcnt, !.env = s.env, !.calls = s.calls,
       !.sleepCheck = s.sleepCheck, !.wifiDrops = s.wifiDrops]

\* ------------------------------------------------------ getPreferences
MalformedUrls == {"http://http:"}
getPreferences(s) ==
    LET p == s.preferences
        stored == p.default_id_tag
        legacy == p.idTag
        defaultIdTag == IF stored = "" THEN legacy ELSE stored
        p1 == IF stored = "" /\ legacy # ""
              THEN [p EXCEPT !.default_id_tag = legacy] ELSE p
        interval == getNum(p.sendInterval, DefaultSendInterval)
        p2 == IF interval = 0
              THEN [p1 EXCEPT !.sendInterval = DefaultSendInterval] ELSE p1
        sleep == getNum(p.deep_sleep, s.deepSleepTimeout_sec)
        malformed == p.serverUrl \in MalformedUrls
        p3 == IF malformed THEN [p2 EXCEPT !.serverUrl = ""] ELSE p2
    IN [s EXCEPT
          !.debugEnabled = getBool(p.debugEnabled, s.debugEnabled),
          !.wifi_ssid = p.wifi_ssid,
          !.deviceName = p.deviceName,
          !.idTag = defaultIdTag,
          !.lastSentIdTag = "",
          !.wheel_size = getNum(p.wheel_size, DefaultWheelSize),
          !.serverUrl = IF malformed THEN "" ELSE p.serverUrl,
          !.apiKey = p.apiKey,
          !.sendInterval_sec = IF interval = 0 THEN DefaultSendInterval ELSE interval,
          !.deepSleepTimeout_sec = sleep,
          !.DeepSleep = (sleep # 0),
          !.configFetchInterval_sec = getNum(p.cfg_fetch_int, s.configFetchInterval_sec),
          !.lastConfigFetchTime = 0,
          !.testActive = getBool(p.testModeEnabled, FALSE),
          !.preferences = p3]

\* ------------------------------------------------ resetDistanceCounters
resetDistanceCounters(s) ==
    [s EXCEPT
       !.totalDistance_mm = 0, !.distanceInInterval_mm = 0,
       !.pulsesAtLastSend = 0, !.lastPulseCount = 0,
       !.currentPulseCount = 0, !.pcnt = 0,
       !.currentSpeed_kmh = 0, !.previousPulseTime = 0,
       !.speedHistoryIndex = 0, !.speedHistoryCount = 0,
       !.speedHistory = <<0, 0, 0, 0, 0>>,
       !.countersOwner = s.idTag, !.blockedUnsent = 0]

\* --------------------------------------------------- device_management
Connected(s) == s.wifiStatus = "WL_CONNECTED"
Ret(s, v) == [st |-> s, ret |-> v]

\* POST /api/device/config/report; the report carries createConfigJson(),
\* whose default_id_tag is the global idTag
reportDeviceConfig(s) ==
    IF s.serverUrl = "" \/ ~Connected(s) THEN {Ret(s, FALSE)}
    ELSE {Ret(LogAnswer(s, "report", s.idTag, boolNum(ok), s.apiKeyErrorActive),
              ok) : ok \in BOOLEAN}

\* POST /api/device/heartbeat with the candidate key
TestKeyCodes == {200, 401, 500, 0 - 1}
testApiKey(s, testKey) ==
    IF testKey = "" \/ s.serverUrl = "" \/ ~Connected(s)
    THEN {Ret([s EXCEPT !.keyTest = [key |-> testKey, code |-> 0]], FALSE)}
    ELSE {Ret([Log(s, "testkey", testKey, 0) EXCEPT
                 !.keyTest = [key |-> testKey, code |-> code]],
              code = 200) : code \in TestKeyCodes}

\* variant: the device name of the response is taken over
applyDeviceNameFromServer(s, cfg) ==
    IF cfg.device_name # NoStr /\ cfg.device_name # ""
    THEN [s EXCEPT !.preferences.deviceName = cfg.device_name,
                   !.deviceName = cfg.device_name]
    ELSE s

\* the device_name of the response is not read
applyDeviceName(s, cfg) == s

applyDefaultIdTag(s, cfg) ==
    LET newTag == cfg.default_id_tag
        stored == s.preferences.default_id_tag
        currentDefault == IF stored = "" THEN s.preferences.idTag ELSE stored
    IN IF newTag # NoStr /\ newTag # "" /\ newTag # currentDefault
       THEN [s EXCEPT !.preferences.default_id_tag = newTag,
                      !.preferences.idTag = newTag,
                      !.idTag = newTag]
       ELSE s

\* variant: the interval is taken over without the "> 0" test
applySendIntervalUnchecked(s, cfg) ==
    LET newInterval == cfg.send_interval_seconds
    IN IF newInterval # NoArg /\ newInterval # s.sendInterval_sec
       THEN [s EXCEPT !.preferences.sendInterval = newInterval,
                      !.sendInterval_sec = newInterval]
       ELSE s

applySendInterval(s, cfg) ==
    LET newInterval == cfg.send_interval_seconds
    IN IF newInterval # NoArg /\ newInterval > 0 /\ newInterval # s.sendInterval_sec
       THEN [Log(s, "put", "sendInterval", 0) EXCEPT
               !.preferences.sendInterval = newInterval,
               !.sendInterval_sec = newInterval]
       ELSE s

applyServerUrl(s, cfg) ==
    LET newUrl == cfg.server_url
    IN IF newUrl # NoStr /\ newUrl # "" /\ newUrl # s.serverUrl
       THEN [s EXCEPT !.preferences.serverUrl = newUrl, !.serverUrl = newUrl]
       ELSE s

Abs(x) == IF x >= 0 THEN x ELSE 0 - x
\* variant: the fetched wheel size is taken over without the range test
applyWheelSizeUnchecked(s, cfg) ==
    LET newSizeMm == cfg.wheel_size
    IN IF newSizeMm # NoArg /\ Abs(newSizeMm - s.wheel_size) > 1
       THEN [s EXCEPT !.preferences.wheel_size = newSizeMm,
                      !.wheel_size = newSizeMm]
       ELSE s

applyWheelSize(s, cfg) ==
    LET newSizeMm == cfg.wheel_size
    IN IF newSizeMm # NoArg /\ newSizeMm >= WheelMin /\ newSizeMm <= WheelMax
          /\ Abs(newSizeMm - s.wheel_size) > 1
       THEN [Log(s, "put", "wheel_size", 0) EXCEPT
               !.preferences.wheel_size = newSizeMm,
               !.wheel_size = newSizeMm]
       ELSE s

applyDebugMode(s, cfg) ==
    LET newDebug == cfg.debug_mode = 1
    IN IF cfg.debug_mode # NoArg /\ newDebug # s.debugEnabled
       THEN [s EXCEPT !.preferences.debugEnabled = boolNum(newDebug),
                      !.debugEnabled = newDebug]
       ELSE s

applyTestMode(s, cfg) ==
    LET newTest == cfg.test_mode = 1
    IN IF cfg.test_mode # NoArg /\ newTest # s.testActive
       THEN [s EXCEPT !.preferences.testModeEnabled = boolNum(newTest),
                      !.testActive = newTest]
       ELSE s

\* variant: 0 is treated like the other numeric fields and ignored
applyDeepSleepNonZero(s, cfg) ==
    LET newSleep == cfg.deep_sleep_seconds
    IN IF newSleep # NoArg /\ newSleep > 0 /\ newSleep # s.deepSleepTimeout_sec
       THEN [s EXCEPT !.preferences.deep_sleep = newSleep,
                      !.deepSleepTimeout_sec = newSleep]
       ELSE s

\* the DeepSleep flag is not touched here
applyDeepSleep(s, cfg) ==
    LET newSleep == cfg.deep_sleep_seconds
    IN IF newSleep # NoArg /\ newSleep # s.deepSleepTimeout_sec
       THEN [s EXCEPT !.preferences.deep_sleep = newSleep,
                      !.deepSleepTimeout_sec = newSleep]
       ELSE s

applyAPPassword(s, cfg) ==
    LET newAPPassword == cfg.ap_password
    IN IF newAPPassword # NoStr /\ Len(newAPPassword) >= MinAPPasswordLen
          /\ newAPPassword # s.preferences.ap_passwd
       THEN [s EXCEPT !.preferences.ap_passwd = newAPPassword]
       ELSE s

\* variant: the new key is stored without regard to the test
applyApiKeyUntested(s, cfg) ==
    LET newApiKey == cfg.device_api_key
    IN IF newApiKey # NoStr /\ newApiKey # ""
       THEN {[r.st EXCEPT !.preferences.apiKey = newApiKey,
                          !.apiKey = newApiKey] : r \in testApiKey(s, newApiKey)}
       ELSE {s}

\* the new key is tested, and stored whenever the test succeeds
applyApiKey(s, cfg) ==
    LET newApiKey == cfg.device_api_key
    IN IF newApiKey # NoStr /\ newApiKey # ""
       THEN {IF r.ret
             THEN [Log(r.st, "put", "apiKey", 0) EXCEPT
                     !.preferences.apiKey = newApiKey,
                     !.apiKey = newApiKey]
             ELSE r.st : r \in testApiKey(s, newApiKey)}
       ELSE {s}

applyFetchInterval(s, cfg) ==
    LET newInterval == cfg.config_fetch_interval_seconds
    IN IF newInterval # NoArg /\ newInterval > 0
          /\ newInterval # s.configFetchInterval_sec
       THEN [s EXCEPT !.preferences.cfg_fetch_int = newInterval,
                      !.configFetchInterval_sec = newInterval]
       ELSE s

\* the body of "if (success && responseDoc.containsKey("config"))"
applyConfig(s, cfg) ==
    LET s0 == applyDeviceName([s EXCEPT !.fetched = cfg], cfg)
        s1 == applyDefaultIdTag(s0, cfg)
        s2 == applySendInterval(s1, cfg)
        s3 == applyServerUrl(s2, cfg)
        s4 == applyWheelSize(s3, cfg)
        s5 == applyDebugMode(s4, cfg)
        s6 == applyTestMode(s5, cfg)
        s7 == applyDeepSleep(s6, cfg)
        s8 == applyAPPassword(s7, cfg)
    IN {applyFetchInterval(s9, cfg) : s9 \in applyApiKey(s8, cfg)}

\* GET /api/device/config/fetch
fetchDeviceConfig(s) ==
    IF s.serverUrl = "" \/ ~Connected(s) THEN {Ret(s, FALSE)}
    ELSE LET s1 == Log(s, "fetch", s.idTag, 0)
             answer(resp) ==
                 IF ~resp.usable THEN {Ret(s1, FALSE)}
                 ELSE IF resp.success /\ resp.hasConfig
                      THEN {Ret(s2, TRUE) : s2 \in applyConfig(s1, resp.config)}
                      ELSE {Ret(s1, resp.success)}
         IN Bind(ServerFetchResponses(s), answer)

\* POST /api/device/heartbeat
sendHeartbeat(s) ==
    IF s.serverUrl = "" \/ ~Connected(s) THEN s
    ELSE Log(s, "heartbeat", s.idTag, 0)

\* checkFirmwareUpdate() and, when it reports an update, downloadFirmware():
\* an installed image restarts the device
firmwareUpdate(s) ==
    IF s.serverUrl = "" \/ ~Connected(s) THEN {s}
    ELSE LET s1 == Log(s, "fwcheck", s.idTag, 0)
         IN {IF fw = "installed" THEN Reboot(s1, "OTHER") ELSE s1
             : fw \in FirmwareOutcomes(s)}

\* ------------------------------------------------------ getUserIdFromTag
\* returns the answer string; "" stands for "no answer"
getUserIdFromTag(s, tagId) ==
    IF s.lastServerErrorTime > 0
       /\ s.now - s.lastServerErrorTime < serverErrorBackoffInterval
    THEN {Ret(s, "")}
    ELSE IF s.serverUrl = "" \/ s.wifi_ssid = "" \/ ~Connected(s)
    THEN {Ret(s, "")}
    ELSE LET s1 == Log(s, "getuser", tagId, 0)
             answer(r) ==
                 IF r.code = 200 /\ r.body = "bad_json" THEN Ret(s1, "FEHLER")
                 ELSE IF r.code = 200 /\ r.body = "user_id"
                 THEN Ret([s1 EXCEPT
                             !.lastServerErrorTime = 0,
                             !.lastErrorOp = "",
                             !.apiKeyErrorActive = FALSE,
                             !.username = IF r.user_id # "" THEN r.user_id ELSE @,
                             !.resolvedFor = IF r.user_id # "" THEN tagId ELSE @],
                          r.user_id)
                 ELSE IF r.code = 200 THEN Ret(s1, "")
                 ELSE IF r.code > 0
                 THEN LET s2 == [s1 EXCEPT
                                   !.lastServerErrorTime = s.now,
                                   !.lastErrorOp = "getuser",
                                   !.apiKeyErrorActive =
                                       IF r.code \in {401, 403} THEN TRUE ELSE @]
                      IN IF r.code = 404
                         THEN Ret([s2 EXCEPT !.username = "NULL",
                                             !.resolvedFor = tagId], "NULL")
                         ELSE Ret(s2, "")
                 ELSE Ret([s1 EXCEPT !.lastServerErrorTime = s.now,
                                     !.lastErrorOp = "getuser"], "")
             logged(r) ==
                 LET a == answer(r)
                 IN Ret(LogUserAnswer(a.st, tagId, r, s.apiKeyErrorActive,
                                      a.ret), a.ret)
         IN {logged(r) : r \in UserResponses \cup s.env.userAnswers}

\* ------------------------------------------------------ sendDataToServer
\* the payload carries the global idTag and the interval's pulses
sendDataToServer(s) ==
    IF s.serverUrl = "" \/ s.wifi_ssid = "" THEN {Ret(s, 0 - 2)}
    ELSE IF ~Connected(s) THEN {Ret(s, 0 - 1)}
    ELSE {Ret(Log(s, "send", s.idTag, s.currentPulseCount - s.pulsesAtLastSend),
              code) : code \in SendCodes}

\* ---------------------------------------------------------- connectToWiFi
\* the tail of connectToWiFi(): the rider lookup for the current idTag
connectLookup(s) ==
    IF s.idTag # "" /\ Connected(s)
    THEN {IF r.ret # ""
          THEN [r.st EXCEPT !.username = r.ret, !.resolvedFor = s.idTag]
          ELSE r.st : r \in getUserIdFromTag(s, s.idTag)}
    ELSE {s}

\* variant: the heartbeat is sent whatever woke the device
connectHeartbeatAlways(s) == {sendHeartbeat(s)}

connectHeartbeat(s) ==
    IF s.wakeup_reason # "EXT0" THEN {sendHeartbeat(s)} ELSE {s}

connectReportFetch(s) ==
    LET afterReport(r) ==
            IF r.ret
            THEN {IF f.ret THEN [f.st EXCEPT !.lastConfigFetchTime = f.st.now]
                  ELSE f.st : f \in fetchDeviceConfig(r.st)}
            ELSE {r.st}
    IN Bind(reportDeviceConfig(s), afterReport)

connectToWiFi(s) ==
    LET attempt(status) ==
            LET s1 == [Log(s, "connect", s.idTag, 0) EXCEPT !.wifiStatus = status]
                returned(x) == {Log(x, "connect_return", x.idTag, 0)}
            IN IF status = "WL_CONNECTED"
               THEN Then(Then(Then(Then(connectReportFetch(
                                            Log([s1 EXCEPT !.wifiConnectAttempts = 0],
                                                "connected", s1.idTag, 0)),
                                        firmwareUpdate),
                                   connectHeartbeat),
                              connectLookup),
                         returned)
               ELSE {[s1 EXCEPT !.wifiConnectAttempts = @ + 1]}
    IN Bind(ConnectOutcomes(s), attempt)

\* ------------------------------------------------------------ configserver
\* a POST /save form; NoStr / NoArg: field not in the request; the two
\* check boxes are present or not
FullForm ==
    [NoForm EXCEPT !.wifi_ssid = "net", !.deviceName = "bike2",
                   !.idTag = "D1", !.wheel_size = 2075,
                   !.serverUrl = "srv/", !.apiKey = "key1",
                   !.sendInterval = 30, !.deepSleepTimeout = 300]
SaveForms == {FullForm, [NoForm EXCEPT !.idTag = "D2"]}

\* url.trim(), trailing slashes removed, "http://" put in front
normalizeUrl(url) ==
    CASE url = "srv/" -> "http://srv"
      [] url = "srv" -> "http://srv"
      [] url = "/" -> ""
      [] OTHER -> url

handleSave(s, form) ==
    LET s1 == IF form.wifi_ssid # NoStr
              THEN [s EXCEPT !.preferences.wifi_ssid = form.wifi_ssid,
                             !.wifi_ssid = form.wifi_ssid]
              ELSE s
        s1n == IF form.deviceName # NoStr
               THEN [s1 EXCEPT !.preferences.deviceName = form.deviceName,
                               !.deviceName = form.deviceName]
               ELSE s1
        s2 == IF form.idTag # NoStr
              THEN [s1n EXCEPT !.preferences.default_id_tag = form.idTag,
                              !.preferences.idTag = form.idTag,
                              !.idTag = form.idTag]
              ELSE s1n
        s3 == IF form.wheel_size # NoArg /\ form.wheel_size >= WheelMin
                 /\ form.wheel_size <= WheelMax
              THEN [s2 EXCEPT !.preferences.wheel_size = form.wheel_size,
                              !.wheel_size = form.wheel_size]
              ELSE s2
        url == normalizeUrl(form.serverUrl)
        s4 == IF form.serverUrl # NoStr
              THEN [s3 EXCEPT !.preferences.serverUrl = url, !.serverUrl = url]
              ELSE s3
        s5 == IF form.apiKey # NoStr
              THEN [s4 EXCEPT !.preferences.apiKey = form.apiKey,
                              !.apiKey = form.apiKey]
              ELSE s4
        s6 == IF form.ap_password # NoStr
                 /\ Len(form.ap_password) >= MinAPPasswordLen
              THEN [s5 EXCEPT !.preferences.ap_passwd = form.ap_password]
              ELSE s5
        s7 == IF form.sendInterval # NoArg
              THEN [s6 EXCEPT !.preferences.sendInterval = form.sendInterval,
                              !.sendInterval_sec = form.sendInterval]
              ELSE s6
        s8 == IF form.deepSleepTimeout # NoArg
              THEN [s7 EXCEPT !.preferences.deep_sleep = form.deepSleepTimeout,
                              !.deepSleepTimeout_sec = form.deepSleepTimeout,
                              !.DeepSleep = (form.deepSleepTimeout # 0)]
              ELSE s7
    IN [s8 EXCEPT
          !.saved = form,
          !.debugEnabled = form.debugEnabled,
          !.preferences.debugEnabled = boolNum(form.debugEnabled),
          !.preferences.testModeEnabled = boolNum(form.testModeEnabled)]

handleReboot(s) == Reboot(Log(s, "reboot", s.idTag, 0), "OTHER")

\* server.handleClient(): at most one pending request is served
ClientRequests ==
    {[kind |-> "none", form |-> NoForm], [kind |-> "reboot", form |-> NoForm]}
    \cup {[kind |-> "save", form |-> f] : f \in SaveForms}
\* requests reach the device only while the config server runs
PendingRequests(s) ==
    IF s.apActive
    THEN ClientRequests \cup {[kind |-> "save", form |-> f] : f \in s.env.forms}
    ELSE {[kind |-> "none", form |-> NoForm]}
handleClient(s, req) ==
    IF ~s.apActive \/ req.kind = "none" THEN s
    ELSE IF req.kind = "save"
    THEN handleSave(Log(s, "save", req.form.idTag, 0), req.form)
    ELSE handleReboot(s)

setupConfigServer(s) == [s EXCEPT !.apActive = TRUE]

\* ------------------------------------------------------------ RFID reader
\* NoStr: no new card in the field, or a read error
CardReads == {NoStr} \cup TagIds
\* variant: the id that was read is also written to the store
RFID_MFRC522_loop_handler_persisting(s, card) ==
    IF card = NoStr THEN s
    ELSE [Log(s, "rfid", card, 0) EXCEPT
            !.idTag = card, !.tagPresented = TRUE,
            !.preferences.default_id_tag = card, !.preferences.idTag = card]

RFID_MFRC522_loop_handler(s, card) ==
    IF card = NoStr THEN s
    ELSE [Log(s, "rfid", card, 0) EXCEPT !.idTag = card, !.tagPresented = TRUE]

\* ------------------------------------------------------------------ setup
storedDefaultIdTag(s) ==
    IF s.preferences.default_id_tag = "" THEN s.preferences.idTag
    ELSE s.preferences.default_id_tag

\* variant: the wheel size is missing only when it is 0
criticalConfigMissingZeroWheel(s) ==
    \/ s.wifi_ssid = ""
    \/ storedDefaultIdTag(s) = ""
    \/ s.wheel_size = 0
    \/ s.sendInterval_sec = 0
    \/ s.serverUrl = ""
    \/ s.apiKey = ""

\* the critical-configuration check of setup()
criticalConfigMissing(s) ==
    \/ s.wifi_ssid = ""
    \/ storedDefaultIdTag(s) = ""
    \/ s.wheel_size < WheelMin \/ s.wheel_size > WheelMax
    \/ s.sendInterval_sec = 0
    \/ s.serverUrl = ""
    \/ s.apiKey = ""

\* variant: the branch does not assign configMode
setupNormalKeepsMode(s) ==
    LET restore(f) ==
            IF f.ret
            THEN [f.st EXCEPT
                    !.lastConfigFetchTime = f.st.now,
                    !.idTag = IF storedDefaultIdTag(f.st) # ""
                              THEN storedDefaultIdTag(f.st) ELSE @,
                    !.idTagFromRFID = IF storedDefaultIdTag(f.st) # ""
                                      THEN FALSE ELSE @]
            ELSE f.st
        afterConnect(c) ==
            IF Connected(c)
            THEN LET h == sendHeartbeat(c)
                 IN IF h.configFetchInterval_sec > 0
                    THEN {restore(f) : f \in fetchDeviceConfig(h)}
                    ELSE {h}
            ELSE {c}
    IN Then(connectToWiFi(s), afterConnect)

\* the branch of setup() taken after a wake by the sensor or a config exit
setupNormal(s) ==
    LET restore(f) ==
            IF f.ret
            THEN [f.st EXCEPT
                    !.lastConfigFetchTime = f.st.now,
                    !.idTag = IF storedDefaultIdTag(f.st) # ""
                              THEN storedDefaultIdTag(f.st) ELSE @,
                    !.idTagFromRFID = IF storedDefaultIdTag(f.st) # ""
                                      THEN FALSE ELSE @]
            ELSE f.st
        afterConnect(c) ==
            IF Connected(c)
            THEN LET h == sendHeartbeat(c)
                 IN IF h.configFetchInterval_sec > 0
                    THEN {restore(f) : f \in fetchDeviceConfig(h)}
                    ELSE {h}
            ELSE {c}
    IN Then(connectToWiFi([s EXCEPT !.configMode = FALSE]), afterConnect)

\* pulse counter initialisation and the last statements of setup()
setupCounter(s) ==
    {[s EXCEPT !.pcnt = 0, !.lastDataSendTime = s.now, !.pc = "run",
               !.countersOwner = s.idTag, !.blockedUnsent = 0]}

setup(s0) ==
    LET s1 == getPreferences([s0 EXCEPT !.pc = "setup", !.now = SetupMillis])
        flag == getBool(s1.preferences.configExit, FALSE)
        s2 == [s1 EXCEPT !.wasConfigExit = flag,
                         !.preferences.configExit = IF flag THEN 0 ELSE @]
        s3 == IF criticalConfigMissing(s2)
              THEN [s2 EXCEPT !.configMode = TRUE, !.configModeForced = TRUE]
              ELSE s2
        branch == IF s3.wakeup_reason # "EXT0" /\ ~s3.wasConfigExit
                  THEN {setupConfigServer(
                            [s3 EXCEPT !.configMode = TRUE,
                                       !.configModeStartTime = s3.now,
                                       !.tagPresented = FALSE])}
                  ELSE setupNormal(s3)
    IN Then(branch, setupCounter)

\* ------------------------------------------------------- loop, ConfigMode
\* server.stop(), WiFi.softAPdisconnect(true), WiFi.mode(WIFI_STA)
stopConfigServer(s) == [s EXCEPT !.apActive = FALSE]

clearLastSent(s) == {[s EXCEPT !.lastSentIdTag = ""]}

\* leaving ConfigMode because idTag differs from the value at entry
tagChangeExit(s) ==
    LET s1 == stopConfigServer(
                  [Log(s, "exit_tag_change", s.idTag, 0) EXCEPT
                     !.idTagAtConfigStartInitialized = FALSE,
                     !.configMode = FALSE, !.normalSince = s.now])
    IN Then(connectToWiFi(s1), clearLastSent)

\* the check made when the ConfigMode timeout has expired
stillMissingCritical(s) ==
    \/ s.preferences.wifi_ssid = ""
    \/ storedDefaultIdTag(s) = ""
    \/ getNum(s.preferences.wheel_size, DefaultWheelSize) = 0
    \/ getNum(s.preferences.sendInterval, 0) = 0

timeoutExit(s) ==
    IF stillMissingCritical(s)
    THEN {[Log(s, "timeout_rearm", s.idTag, 0) EXCEPT
             !.configModeStartTime = s.now]}
    ELSE LET s1 == stopConfigServer(
                       [Log(s, "exit_timeout", s.idTag, 0) EXCEPT
                          !.idTagAtConfigStartInitialized = FALSE,
                          !.configMode = FALSE, !.normalSince = s.now])
         IN Then(connectToWiFi(getPreferences(s1)), clearLastSent)

\* leaving ConfigMode because the hardware counter has counted
pulseExit(s) ==
    LET s1 == stopConfigServer(
                  [Log(s, "exit_pulse", s.idTag, 0) EXCEPT
                     !.idTagAtConfigStartInitialized = FALSE,
                     !.configMode = FALSE, !.normalSince = s.now])
    IN Then(connectToWiFi(s1), clearLastSent)

configModeChecks(s0) ==
    LET s == IF ~s0.idTagAtConfigStartInitialized
             THEN [s0 EXCEPT !.idTagAtConfigStart = s0.idTag,
                             !.idTagAtConfigStartInitialized = TRUE]
             ELSE s0
    IN IF s.idTag # "" /\ s.idTag # s.idTagAtConfigStart
       THEN tagChangeExit(s)
       ELSE IF s.now - s.configModeStartTime >= CONFIG_TIMEOUT_SEC * 1000
       THEN timeoutExit(s)
       ELSE LET s1 == [s EXCEPT !.currentPulseCount = s.pcnt]
            IN IF s1.currentPulseCount > 0 THEN pulseExit(s1) ELSE {s1}

loopConfigMode(s, req) ==
    Then({handleClient(s, req)}, configModeChecks)

\* ------------------------------------------------------- loop, NormalMode
validName(name) == name # "" /\ name # "NULL"

\* the rider id differs from the one last used: counters reset, lookup
idChange(s) ==
    IF s.idTag # "" /\ s.idTag # s.lastSentIdTag
    THEN LET cue == IF ~s.idTagFromRFID THEN Log(s, "cue", s.idTag, 0) ELSE s
             s1 == [resetDistanceCounters(cue) EXCEPT !.lastSentIdTag = s.idTag]
         IN IF Connected(s1) /\ ~s1.apiKeyErrorActive
            THEN {IF r.ret # "" /\ r.ret # r.st.username
                  THEN [r.st EXCEPT !.username = r.ret, !.resolvedFor = s.idTag]
                  ELSE r.st : r \in getUserIdFromTag(s1, s1.idTag)}
            ELSE {s1}
    ELSE {s}

\* variant: the reconnect is tried in every pass without a connection
wifiCheckUncapped(s) ==
    IF ~Connected(s) THEN connectToWiFi(s)
    ELSE {[s EXCEPT !.wifiConnectAttempts = 0]}

wifiCheck(s) ==
    IF ~Connected(s)
    THEN IF s.wifiConnectAttempts < MaxWifiAttempts THEN connectToWiFi(s) ELSE {s}
    ELSE {[s EXCEPT !.wifiConnectAttempts = 0]}

\* speed of one wheel turn in km/h, rounded down
turnSpeed(wheel, dt) ==
    IF dt > 0 /\ dt < SPEED_TIMEOUT_MS THEN (wheel * 36) \div (dt * 10) ELSE 0

RECURSIVE SumFirst(_, _)
SumFirst(h, n) == IF n = 0 THEN 0 ELSE h[n] + SumFirst(h, n - 1)

\* display_Data(): the speed timeout is looked at where the data is drawn
display_Data(s) ==
    IF s.lastPulseTime > 0 /\ s.now - s.lastPulseTime >= SPEED_TIMEOUT_MS
    THEN [s EXCEPT !.currentSpeed_kmh = 0, !.speedHistoryIndex = 0,
                   !.speedHistoryCount = 0,
                   !.speedHistory = [i \in DOMAIN @ |-> 0]]
    ELSE s

\* reading the hardware counter and deriving distance and speed
pulseCounting(s) ==
    LET s1 == [s EXCEPT !.currentPulseCount = s.pcnt]
    IN IF s1.currentPulseCount # s1.lastPulseCount
       THEN LET newSpeed == turnSpeed(s1.wheel_size, s1.now - s1.previousPulseTime)
                hist == [s1.speedHistory EXCEPT ![s1.speedHistoryIndex + 1] = newSpeed]
                cnt == IF s1.speedHistoryCount < SPEED_AVERAGE_COUNT
                       THEN s1.speedHistoryCount + 1 ELSE s1.speedHistoryCount
                s2 == IF s1.previousPulseTime > 0
                      THEN [s1 EXCEPT
                              !.speedHistory = hist,
                              !.speedHistoryIndex = (@ + 1) % SPEED_AVERAGE_COUNT,
                              !.speedHistoryCount = cnt,
                              !.currentSpeed_kmh = SumFirst(hist, cnt) \div cnt]
                      ELSE s1
            IN display_Data([s2 EXCEPT
                  !.totalDistance_mm = s1.currentPulseCount * s1.wheel_size,
                  !.previousPulseTime = s1.now,
                  !.lastPulseCount = s1.currentPulseCount,
                  !.lastPulseTime = s1.now])
       ELSE s1

periodicFetch(s) ==
    IF s.configFetchInterval_sec > 0 /\ Connected(s) /\ ~s.apiKeyErrorActive
       /\ (s.lastConfigFetchTime = 0
           \/ s.now - s.lastConfigFetchTime >= s.configFetchInterval_sec * 1000)
    THEN {IF f.ret THEN [f.st EXCEPT !.lastConfigFetchTime = f.st.now]
          ELSE f.st : f \in fetchDeviceConfig(s)}
    ELSE {s}

\* variant: a successful send leaves lastServerErrorTime as it is
dataSendKeepsErrorTime(s) ==
    LET pulsesInInterval == s.currentPulseCount - s.pulsesAtLastSend
        s1 == [s EXCEPT !.distanceInInterval_mm = pulsesInInterval * s.wheel_size]
        result(r) ==
            IF r.ret > 0 /\ r.ret < 300
            THEN [r.st EXCEPT !.pulsesAtLastSend = r.st.currentPulseCount,
                              !.lastSentIdTag = r.st.idTag,
                              !.lastServerErrorTime = @,
                              !.lastErrorOp = "",
                              !.apiKeyErrorActive = FALSE,
                              !.blockedUnsent = 0]
            ELSE IF r.ret = 0 - 1 THEN r.st
            ELSE [r.st EXCEPT !.lastServerErrorTime = r.st.now,
                              !.lastErrorOp = "send",
                              !.apiKeyErrorActive =
                                  IF r.ret \in {401, 403} THEN TRUE ELSE @]
        answered(r) ==
            IF r.ret > 0
            THEN LogAnswer(result(r), "send_answer", r.st.idTag, r.ret,
                           r.st.apiKeyErrorActive)
            ELSE IF r.ret = 0 - 1
            THEN LogAnswer(result(r), "send_nowifi", r.st.idTag, r.ret,
                           r.st.apiKeyErrorActive)
            ELSE result(r)
        sent == IF s1.distanceInInterval_mm > 0
                THEN {answered(r) : r \in sendDataToServer(s1)}
                ELSE {s1}
    IN {[x EXCEPT !.lastDataSendTime = x.now] : x \in sent}

\* variant: every answered send advances pulsesAtLastSend
dataSendAdvancesAlways(s) ==
    LET pulsesInInterval == s.currentPulseCount - s.pulsesAtLastSend
        s1 == [s EXCEPT !.distanceInInterval_mm = pulsesInInterval * s.wheel_size]
        result(r) ==
            IF r.ret > 0 /\ r.ret < 300
            THEN [r.st EXCEPT !.pulsesAtLastSend = r.st.currentPulseCount,
                              !.lastSentIdTag = r.st.idTag,
                              !.lastServerErrorTime = 0,
                              !.lastErrorOp = "",
                              !.apiKeyErrorActive = FALSE,
                              !.blockedUnsent = 0]
            ELSE IF r.ret = 0 - 1 THEN r.st
            ELSE [r.st EXCEPT !.pulsesAtLastSend = r.st.currentPulseCount,
                              !.lastServerErrorTime = r.st.now,
                              !.lastErrorOp = "send",
                              !.apiKeyErrorActive =
                                  IF r.ret \in {401, 403} THEN TRUE ELSE @]
        answered(r) ==
            IF r.ret > 0
            THEN LogAnswer(result(r), "send_answer", r.st.idTag, r.ret,
                           r.st.apiKeyErrorActive)
            ELSE result(r)
        sent == IF s1.distanceInInterval_mm > 0
                THEN {answered(r) : r \in sendDataToServer(s1)}
                ELSE {s1}
    IN {[x EXCEPT !.lastDataSendTime = x.now] : x \in sent}

\* the send block, taken with a valid rider name when the interval is over
dataSend(s) ==
    LET pulsesInInterval == s.currentPulseCount - s.pulsesAtLastSend
        s1 == [s EXCEPT !.distanceInInterval_mm = pulsesInInterval * s.wheel_size]
        result(r) ==
            IF r.ret > 0 /\ r.ret < 300
            THEN [r.st EXCEPT !.pulsesAtLastSend = r.st.currentPulseCount,
                              !.lastSentIdTag = r.st.idTag,
                              !.lastServerErrorTime = 0,
                              !.lastErrorOp = "",
                              !.apiKeyErrorActive = FALSE,
                              !.blockedUnsent = 0]
            ELSE IF r.ret = 0 - 1 THEN r.st
            ELSE [r.st EXCEPT !.lastServerErrorTime = r.st.now,
                              !.lastErrorOp = "send",
                              !.apiKeyErrorActive =
                                  IF r.ret \in {401, 403} THEN TRUE ELSE @]
        answered(r) ==
            IF r.ret > 0
            THEN LogAnswer(result(r), "send_answer", r.st.idTag, r.ret,
                           r.st.apiKeyErrorActive)
            ELSE IF r.ret = 0 - 1
            THEN LogAnswer(result(r), "send_nowifi", r.st.idTag, r.ret,
                           r.st.apiKeyErrorActive)
            ELSE result(r)
        sent == IF s1.distanceInInterval_mm > 0
                THEN {answered(r) : r \in sendDataToServer(s1)}
                ELSE {s1}
    IN {[x EXCEPT !.lastDataSendTime = x.now] : x \in sent}

\* the retry block, taken without a valid rider name when the interval is over
lookupRetry(s) ==
    LET tried ==
            IF (s.lastServerErrorTime = 0
                \/ s.now - s.lastServerErrorTime >= serverErrorBackoffInterval)
               /\ Connected(s)
            THEN {IF r.ret # "" /\ r.ret # r.st.username
                  THEN [r.st EXCEPT !.username = r.ret, !.resolvedFor = s.idTag]
                  ELSE r.st : r \in getUserIdFromTag(s, s.idTag)}
            ELSE {s}
    IN {[x EXCEPT !.lastDataSendTime = x.now] : x \in tried}

\* digitalRead(SENSOR_PIN): HIGH unless the magnet rests at the sensor
PinLevels == {"HIGH", "LOW"}
\* esp_deep_sleep_start(): the RAM is lost, the sensor pin going LOW wakes
deepSleepStart(s) ==
    [Reboot(Log(s, "sleep", s.idTag, 0), "EXT0") EXCEPT !.pc = "sleep"]

\* the values the deep sleep check of loop() decides on; level is the
\* sensor line as read, "unread" if the check ended before the read
SleepCheck(s, level) ==
    [configMode |-> s.configMode, timeout |-> s.deepSleepTimeout_sec,
     idle |-> s.now - s.lastPulseTime, pin |-> level]

\* variant: the sensor line is not looked at
deepSleepCheckAnyPin(s) ==
    IF s.deepSleepTimeout_sec > 0
       /\ s.now - s.lastPulseTime >= s.deepSleepTimeout_sec * 1000
       /\ s.DeepSleep
    THEN {deepSleepStart([s EXCEPT !.sleepCheck = SleepCheck(s, level)])
          : level \in PinLevels}
    ELSE {s}

deepSleepCheck(s) ==
    IF s.deepSleepTimeout_sec > 0
       /\ s.now - s.lastPulseTime >= s.deepSleepTimeout_sec * 1000
       /\ s.DeepSleep
    THEN LET pin(x) ==
                 {LET x1 == [x EXCEPT !.sleepCheck = SleepCheck(s, level)]
                  IN IF level = "HIGH" THEN deepSleepStart(x1)
                     ELSE [x1 EXCEPT !.lastPulseTime = x.now]
                  : level \in PinLevels}
             s1 == Log(s, "fwcheck", s.idTag, 0)
         IN IF Connected(s) /\ s.serverUrl # ""
            THEN UNION {IF fw = "none" THEN pin(s1)
                        ELSE IF fw = "fail" THEN {s1}
                        ELSE {Reboot(s1, "OTHER")} : fw \in FirmwareOutcomes(s)}
            ELSE pin(s)
    ELSE {s}

hasValidUsername(s) == ~s.apiKeyErrorActive /\ validName(s.username)

intervalOver(s) == s.now - s.lastDataSendTime >= s.sendInterval_sec * 1000

\* NormalMode after the rider-id check; valid is the hasValidUsername local
normalModeSteps(s, valid) ==
    LET count(x) == IF valid THEN {pulseCounting(x)} ELSE {x}
        send(x) == IF ~x.testActive /\ valid /\ intervalOver(x) THEN dataSend(x)
                   ELSE IF ~x.testActive /\ ~valid /\ intervalOver(x)
                   THEN lookupRetry(x)
                   ELSE {x}
    IN Then(Then(Then(Then(wifiCheck(s), count), periodicFetch), send),
            deepSleepCheck)

loopNormalMode(s) ==
    LET rest(x) == normalModeSteps(x, hasValidUsername(x))
    IN Then(idChange(s), rest)

\* one pass of loop()
loop(s, card, req) ==
    LET s1 == RFID_MFRC522_loop_handler([s EXCEPT !.calls = <<>>, !.sleepCheck = NoSleepCheck, !.saved = NoForm], card)
    IN IF s1.configMode THEN loopConfigMode(s1, req) ELSE loopNormalMode(s1)

\* ---------------------------------------------------- the persisted store
EmptyStore ==
    [wifi_ssid |-> "", deviceName |-> "", default_id_tag |-> "", idTag |-> "",
     wheel_size |-> NoKey, sendInterval |-> NoKey, serverUrl |-> "",
     apiKey |-> "", deep_sleep |-> NoKey, cfg_fetch_int |-> NoKey,
     configExit |-> NoKey, ap_passwd |-> "", debugEnabled |-> NoKey,
     testModeEnabled |-> NoKey]
GoodStore ==
    [EmptyStore EXCEPT !.wifi_ssid = "net", !.deviceName = "bike1",
                       !.default_id_tag = "D1",
                       !.idTag = "D1", !.wheel_size = 2075,
                       !.sendInterval = 30, !.serverUrl = "http://srv",
                       !.apiKey = "key1"]
\* what a device can hold when it is switched on: nothing, a complete
\* configuration, one written by an earlier firmware (wheel size in cm, no
\* send interval, a pending configExit flag)
InitialStores ==
    {EmptyStore, GoodStore,
     [GoodStore EXCEPT !.wheel_size = 210],
     [GoodStore EXCEPT !.sendInterval = NoKey],
     [GoodStore EXCEPT !.configExit = 1]}

\* the RAM before setup() has run
PowerOn(store, cause, e) ==
    [StaticInit EXCEPT !.preferences = store, !.wakeup_reason = cause,
                       !.env = e]

\* ------------------------------------------------------------ the system
WakeupCauses == {"EXT0", "OTHER"}
Deltas == {300000}

\* accessPoint: the configured WiFi network is in range;
\* firmwareImage: the server offers a firmware image for the device;
\* serverConfigs: the config objects the server holds for the device;
\* observed: the requests of the device that are recorded besides Recorded
\* forms: further save requests a user of the local UI submits
\* updateFails: the server offers an image and every download of it fails
ScenarioWithForms(ap, fw, cfgs, ops, forms) ==
    [accessPoint |-> ap, firmwareImage |-> fw, serverConfigs |-> cfgs,
     observed |-> ops, forms |-> forms, userAnswers |-> {},
     updateFails |-> FALSE]
Scenario(ap, fw, cfgs, ops) == ScenarioWithForms(ap, fw, cfgs, ops, {})
\* answers: further answers the server gives to a rider query
ScenarioWithAnswers(ap, fw, cfgs, ops, answers) ==
    [Scenario(ap, fw, cfgs, ops) EXCEPT !.userAnswers = answers]
EnvironmentWith(ap, fw, cfgs) == Scenario(ap, fw, cfgs, {})
Environment(ap, fw) == EnvironmentWith(ap, fw, {})

Setup ==
    /\ pc = "boot"
    /\ \E r \in setup([St EXCEPT !.calls = <<>>, !.sleepCheck = NoSleepCheck, !.saved = NoForm]) : Commit(r)

Loop ==
    /\ pc = "run"
    /\ \E card \in CardReads, req \in PendingRequests(St) :
           \E r \in loop(St, card, req) : Commit(r)

\* a pass of loop() with no card at the reader and no request from the UI
Pass ==
    /\ pc = "run"
    /\ \E r \in loop(St, NoStr, [kind |-> "none", form |-> NoForm]) : Commit(r)

\* time passes between two passes of loop()
Advance ==
    /\ pc = "run"
    /\ \E d \in Deltas :
           /\ now + d <= MaxTime
           /\ Commit([St EXCEPT !.now = now + d, !.calls = <<>>, !.sleepCheck = NoSleepCheck, !.saved = NoForm])

\* one send interval passes between two passes of loop()
AdvanceInterval ==
    /\ pc = "run"
    /\ now + sendInterval_sec * 1000
         <= SetupMillis + MaxIntervals * sendInterval_sec * 1000
    /\ Commit([St EXCEPT !.now = now + sendInterval_sec * 1000,
                         !.calls = <<>>, !.sleepCheck = NoSleepCheck, !.saved = NoForm])

\* one turn of the wheel: the counter counts the rising edge
Pulse ==
    /\ pc = "run"
    /\ pcnt < MaxPulses
    /\ Commit([St EXCEPT
                 !.pcnt = @ + 1,
                 !.blockedUnsent = IF ~hasValidUsername(St) THEN @ + 1 ELSE @,
                 !.calls = <<>>, !.sleepCheck = NoSleepCheck, !.saved = NoForm])

WifiDrop ==
    /\ pc = "run"
    /\ wifiStatus = "WL_CONNECTED"
    /\ wifiDrops < MaxWifiDrops
    /\ Commit([St EXCEPT !.wifiStatus = "WL_DISCONNECTED",
                         !.wifiDrops = @ + 1, !.calls = <<>>, !.sleepCheck = NoSleepCheck, !.saved = NoForm])

\* one turn of the wheel that takes d milliseconds
TurnTimes == {1000}
Turn ==
    /\ pc = "run"
    /\ pcnt < MaxTurns
    /\ \E d \in TurnTimes :
           /\ now + d <= MaxRideTime
           /\ Commit([St EXCEPT
                        !.pcnt = @ + 1, !.now = now + d,
                        !.blockedUnsent = IF ~hasValidUsername(St) THEN @ + 1 ELSE @,
                        !.calls = <<>>, !.sleepCheck = NoSleepCheck,
                        !.saved = NoForm])

\* one turn of the wheel at any time of the ride
Revolution ==
    /\ pc = "run"
    /\ pcnt < MaxTurns
    /\ Commit([St EXCEPT
                 !.pcnt = @ + 1,
                 !.blockedUnsent = IF ~hasValidUsername(St) THEN @ + 1 ELSE @,
                 !.calls = <<>>, !.sleepCheck = NoSleepCheck, !.saved = NoForm])

\* the wheel stands still for the time of the speed timeout
Idle ==
    /\ pc = "run"
    /\ now + SPEED_TIMEOUT_MS <= MaxRideTime
    /\ Commit([St EXCEPT !.now = now + SPEED_TIMEOUT_MS, !.calls = <<>>,
                         !.sleepCheck = NoSleepCheck, !.saved = NoForm])

\* ext0 wake: the magnet pulls SENSOR_PIN LOW
Wake ==
    /\ pc = "sleep"
    /\ Commit([St EXCEPT !.pc = "boot", !.calls = <<>>, !.sleepCheck = NoSleepCheck, !.saved = NoForm])

\* the supply is switched off and on again
PowerCycle ==
    /\ pc = "run"
    /\ Commit(Reboot([St EXCEPT !.calls = <<>>, !.sleepCheck = NoSleepCheck, !.saved = NoForm], "OTHER"))

\* Riding: a configured device that was told to leave ConfigMode, the WiFi
\* network in range, no firmware image on offer
Init ==
    Is(PowerOn([GoodStore EXCEPT !.configExit = 1], "OTHER",
               Environment(TRUE, FALSE)))
Next == Setup \/ Loop \/ Advance \/ Pulse \/ WifiDrop \/ Wake
Spec == Init /\ [][Next]_vars

\* Configuration: every initial store and wake cause, the WiFi network out
\* of range
InitConfig ==
    \E store \in InitialStores, cause \in WakeupCauses :
        Is(PowerOn(store, cause, Environment(FALSE, FALSE)))
NextConfig == Setup \/ Loop \/ Advance \/ Pulse \/ Wake
SpecConfig == InitConfig /\ [][NextConfig]_vars

\* Booting: setup() alone, from every store, wake cause and environment
BootStores == InitialStores \cup {[EmptyStore EXCEPT !.configExit = 1]}
InitBoot ==
    \E store \in BootStores, cause \in WakeupCauses, ap \in BOOLEAN,
       fw \in BOOLEAN :
        Is(PowerOn(store, cause, Environment(ap, fw)))
NextBoot == Setup \/ PowerCycle
SpecBoot == InitBoot /\ [][NextBoot]_vars

\* Fetching: one config object of every shape is applied to a running,
\* connected device
FetchConfigs ==
    [default_id_tag : {NoStr, "", "D2"},
     send_interval_seconds : {NoArg, 0, 60},
     server_url : {NoStr, "", "http://new"},
     wheel_size : {NoArg, 0, 2100},
     debug_mode : {NoArg},
     test_mode : {NoArg, 1},
     deep_sleep_seconds : {NoArg, 0},
     ap_password : {NoStr, "", "newpasswd"},
     device_api_key : {NoStr, "", "key2"},
     config_fetch_interval_seconds : {NoArg, 0, 7200},
     device_name : {NoStr, "srvname"}]
FetchStores ==
    {GoodStore,
     [GoodStore EXCEPT !.ap_passwd = "oldpasswd", !.cfg_fetch_int = 3600,
                       !.deep_sleep = 300]}
\* the device after setup() has connected
Connected_Device(store) ==
    [getPreferences(PowerOn(store, "EXT0", Environment(TRUE, FALSE))) EXCEPT
       !.pc = "run", !.now = SetupMillis, !.wifiStatus = "WL_CONNECTED",
       !.lastDataSendTime = SetupMillis, !.countersOwner = store.default_id_tag]
InitFetch == \E store \in FetchStores : Is(Connected_Device(store))
ApplyFetch ==
    /\ pc = "run"
    /\ fetched = NoConfig
    /\ \E cfg \in FetchConfigs :
           \E r \in applyConfig([St EXCEPT !.calls = <<>>, !.sleepCheck = NoSleepCheck, !.saved = NoForm], cfg) : Commit(r)
NextFetch == ApplyFetch
SpecFetch == InitFetch /\ [][NextFetch]_vars

\* Fetching again: config objects that carry one valid value each, the
\* value the device holds or another one, are applied one after the other;
\* the writes to the store are recorded
RefetchConfigs ==
    {[NoConfig EXCEPT !.wheel_size = w] :
        w \in {DefaultWheelSize, DefaultWheelSize + 1, 2100}}
    \cup {[NoConfig EXCEPT !.send_interval_seconds = i] :
             i \in {DefaultSendInterval, 60}}
    \cup {[NoConfig EXCEPT !.device_api_key = k] : k \in {"key1", "key2"}}
InitRefetch ==
    Is([Connected_Device(GoodStore) EXCEPT
          !.env = Scenario(TRUE, FALSE, RefetchConfigs, {"put"})])
ApplyServerConfig ==
    /\ pc = "run"
    /\ \E cfg \in env.serverConfigs :
           \E r \in applyConfig([St EXCEPT !.calls = <<>>,
                                            !.sleepCheck = NoSleepCheck,
                                            !.saved = NoForm], cfg) : Commit(r)
NextRefetch == ApplyServerConfig
SpecRefetch == InitRefetch /\ [][NextRefetch]_vars

\* Remote settings: a configured device woken by the wheel, the server
\* holding deep-sleep, debug and test settings for it
RemoteSleepSeconds == 100
SettingsConfigs ==
    {[NoConfig EXCEPT !.deep_sleep_seconds = d, !.debug_mode = g,
                      !.test_mode = t] :
       d \in {NoArg, 0, RemoteSleepSeconds}, g \in {NoArg, 0, 1},
       t \in {NoArg, 0, 1}} \ {NoConfig}
SettingsStores ==
    {GoodStore,
     [GoodStore EXCEPT !.deep_sleep = 300, !.debugEnabled = 0,
                       !.testModeEnabled = 1]}
InitSettings ==
    \E store \in SettingsStores :
        Is(PowerOn(store, "EXT0", EnvironmentWith(TRUE, FALSE, SettingsConfigs)))
NextSettings == Setup \/ Loop \/ Advance \/ Wake
SpecSettings == InitSettings /\ [][NextSettings]_vars

\* Provisioning: a new or a configured device is switched on with the WiFi
\* network in range; it is configured through the local UI, tags are
\* presented, and the server holds a device name for it; the connection
\* attempts are recorded
ProvisionConfigs == {[NoConfig EXCEPT !.device_name = "srvname"]}
ProvisionStores == {EmptyStore, GoodStore}
InitProvision ==
    \E store \in ProvisionStores :
        Is(PowerOn(store, "OTHER",
                   Scenario(TRUE, FALSE, ProvisionConfigs, {"connect"})))
NextProvision == Setup \/ Loop \/ Advance
SpecProvision == InitProvision /\ [][NextProvision]_vars

\* Outage: the riding scenario, with the rider queries, the config fetches
\* and reports and the connection attempts recorded
OutageObserved == {"getuser", "fetch", "report", "connect"}
InitOutage ==
    Is(PowerOn([GoodStore EXCEPT !.configExit = 1], "OTHER",
               Scenario(TRUE, FALSE, {}, OutageObserved)))
NextOutage == Setup \/ Loop \/ Advance \/ Pulse \/ WifiDrop \/ Wake
SpecOutage == InitOutage /\ [][NextOutage]_vars

\* Answers: the riding scenario, with the answers to the rider queries and
\* to the data sends recorded
InitAnswers ==
    Is(PowerOn([GoodStore EXCEPT !.configExit = 1], "OTHER",
               Scenario(TRUE, FALSE, {}, {"getuser_answer", "send_answer"})))
NextAnswers == Setup \/ Loop \/ Advance \/ Pulse \/ WifiDrop \/ Wake
SpecAnswers == InitAnswers /\ [][NextAnswers]_vars

\* Send errors: the riding scenario pass by pass at the pace of the send
\* interval, the rider queries recorded
InitBackoff ==
    Is(PowerOn([GoodStore EXCEPT !.configExit = 1], "OTHER",
               Scenario(TRUE, FALSE, {}, {"getuser"})))
NextBackoff == Setup \/ Loop \/ AdvanceInterval \/ Pulse \/ WifiDrop
SpecBackoff == InitBackoff /\ [][NextBackoff]_vars

\* Connecting: a configured device after a power-on or a wake from deep
\* sleep, with connection losses; the requests that follow a connect are
\* recorded
ConnectObserved ==
    {"connected", "connect_return", "report", "fetch", "fwcheck", "heartbeat"}
InitConnect ==
    \E cause \in WakeupCauses :
        Is(PowerOn([GoodStore EXCEPT !.configExit = 1], cause,
                   Scenario(TRUE, FALSE, {}, ConnectObserved)))
NextConnect == Setup \/ Loop \/ Advance \/ WifiDrop \/ Wake
SpecConnect == InitConnect /\ [][NextConnect]_vars

\* Tuning: a configured device is switched on in reach of its network; wheel
\* sizes and send intervals in and out of range are submitted through the
\* local UI and held by the server; the config fetches are recorded
TuningForms ==
    {[NoForm EXCEPT !.wheel_size = w] : w \in {499, 500, 3001}}
    \cup {[NoForm EXCEPT !.sendInterval = 0]}
TuningConfigs ==
    {[NoConfig EXCEPT !.wheel_size = w] : w \in {0, 3000, 3001}}
    \cup {[NoConfig EXCEPT !.send_interval_seconds = i] : i \in {0, 60}}
InitTuning ==
    Is(PowerOn(GoodStore, "OTHER",
               ScenarioWithForms(TRUE, FALSE, TuningConfigs, {"fetch"},
                                 TuningForms)))
NextTuning == Setup \/ Loop
SpecTuning == InitTuning /\ [][NextTuning]_vars

\* Lookups: the riding scenario with a server that also answers a rider
\* query with HTTP 200 and a body that cannot be parsed, that has no user_id
\* or whose user_id is "NULL", and with requests that fail in transport; the
\* answers are recorded
LookupAnswers ==
    {[code |-> 200, body |-> "bad_json", user_id |-> ""],
     [code |-> 200, body |-> "no_user_id", user_id |-> ""],
     [code |-> 200, body |-> "user_id", user_id |-> "NULL"],
     [code |-> 0 - 1, body |-> "", user_id |-> ""]}
InitLookup ==
    Is(PowerOn([GoodStore EXCEPT !.configExit = 1], "OTHER",
               ScenarioWithAnswers(TRUE, FALSE, {}, {"getuser_answer"},
                                   LookupAnswers)))
NextLookup == Setup \/ Loop \/ Advance \/ WifiDrop
SpecLookup == InitLookup /\ [][NextLookup]_vars

\* Resizing: the riding scenario with a server that holds another wheel
\* size for the device
ResizeConfigs == {[NoConfig EXCEPT !.wheel_size = WheelMax]}
InitResize ==
    Is(PowerOn([GoodStore EXCEPT !.configExit = 1], "OTHER",
               EnvironmentWith(TRUE, FALSE, ResizeConfigs)))
NextResize == Setup \/ Loop \/ Advance \/ Pulse \/ WifiDrop
SpecResize == InitResize /\ [][NextResize]_vars

\* A short ride: the riding scenario turn by turn of the wheel, with pauses
\* of the length of the speed timeout
InitRide ==
    Is(PowerOn([GoodStore EXCEPT !.configExit = 1], "OTHER",
               Environment(TRUE, FALSE)))
NextRide == Setup \/ Loop \/ Turn \/ Idle
SpecRide == InitRide /\ [][NextRide]_vars

\* Scanning: a configured device in reach of its network at which tags are
\* presented; the reads of the RFID reader and the confirmation cues of the
\* rider-change branch are recorded
InitScan ==
    Is(PowerOn([GoodStore EXCEPT !.configExit = 1], "OTHER",
               Scenario(TRUE, FALSE, {}, {"rfid", "cue"})))
NextScan == Setup \/ Loop \/ Advance
SpecScan == InitScan /\ [][NextScan]_vars

\* Offline: the riding scenario, with the data sends that found no WiFi
\* connection recorded
InitOffline ==
    Is(PowerOn([GoodStore EXCEPT !.configExit = 1], "OTHER",
               Scenario(TRUE, FALSE, {}, {"send_nowifi"})))
NextOffline == Setup \/ Loop \/ Advance \/ Pulse \/ WifiDrop
SpecOffline == InitOffline /\ [][NextOffline]_vars

\* Probing: a configured device in NormalMode whose WiFi connection holds,
\* with deep sleep switched off, the test mode off or on and two send
\* intervals; loop() is called
\* again and again by the Arduino runtime and the clock advances, which the
\* weak fairness conditions on Setup, Loop and Advance state
ProbeStores ==
    {[GoodStore EXCEPT !.configExit = 1, !.testModeEnabled = boolNum(test),
                       !.sendInterval = interval, !.deep_sleep = 0] :
        test \in BOOLEAN, interval \in {30, 60}}
InitProbe ==
    \E store \in ProbeStores :
        Is(PowerOn(store, "OTHER", Scenario(TRUE, FALSE, {}, {"getuser"})))
NextProbe == Setup \/ Loop \/ Advance \/ Pulse
SpecProbe ==
    /\ InitProbe /\ [][NextProbe]_vars
    /\ WF_vars(Setup) /\ WF_vars(Loop) /\ WF_vars(Advance)

\* Ledger: a ride over several send intervals, with the answers to the data
\* sends recorded
InitLedger ==
    Is(PowerOn([GoodStore EXCEPT !.configExit = 1], "OTHER",
               Scenario(TRUE, FALSE, {}, {"send_answer"})))
NextLedger == Setup \/ Loop \/ AdvanceInterval \/ Revolution
SpecLedger == InitLedger /\ [][NextLedger]_vars

\* Sleep settings: a device that holds the deep-sleep timeout 0 or 300, and
\* a server that holds the timeout 0 or RemoteSleepSeconds for it
SleepConfigs ==
    {[NoConfig EXCEPT !.deep_sleep_seconds = d] : d \in {0, RemoteSleepSeconds}}
SleepStores == {[GoodStore EXCEPT !.deep_sleep = d] : d \in {0, 300}}
InitSleepSettings ==
    \E store \in SleepStores, cause \in WakeupCauses :
        Is(PowerOn(store, cause, EnvironmentWith(TRUE, FALSE, SleepConfigs)))
NextSleepSettings == Setup \/ Loop \/ Advance \/ Wake
SpecSleepSettings == InitSleepSettings /\ [][NextSleepSettings]_vars

\* Update before sleep: a configured device woken from deep sleep, whose
\* WiFi connection holds; the server offers no firmware image, or one whose
\* download fails every time. loop() is called again and again by the
\* Arduino runtime and the clock advances, which the weak fairness
\* conditions state; the magnet passing the sensor (Wake) is left to the
\* environment
InitUpdate ==
    \E fails \in BOOLEAN :
        Is(PowerOn(GoodStore, "EXT0",
                   [Environment(TRUE, fails) EXCEPT !.updateFails = fails]))
NextUpdate == Setup \/ Pass \/ Advance \/ Wake
SpecUpdate ==
    /\ InitUpdate /\ [][NextUpdate]_vars
    /\ WF_vars(Setup) /\ WF_vars(Pass) /\ WF_vars(Advance)

\* Reporting: a configured device is switched on and starts in ConfigMode
\* with its network in range; tags are presented and the local UI is used;
\* the config reports are recorded
InitReport ==
    Is(PowerOn(GoodStore, "OTHER", Scenario(TRUE, FALSE, {}, {"report"})))
NextReport == Setup \/ Loop \/ Advance
SpecReport == InitReport /\ [][NextReport]_vars

\* ------------------------------------------------------------ properties
Sends == {i \in 1..Len(calls) : calls[i].op = "send"}
TimeoutChecked == Issued("exit_timeout") \/ Issued("timeout_rearm")
WheelInRange(w) == w >= WheelMin /\ w <= WheelMax

CriticalFieldMissing ==
    \/ wifi_ssid = ""
    \/ storedDefaultIdTag(St) = ""
    \/ ~WheelInRange(wheel_size)
    \/ sendInterval_sec = 0

\* C2: on no exit path (tag change, pulse, timeout) does the device go from
\* ConfigMode to NormalMode while a critical field (WiFi SSID, default rider
\* id, wheel size in [500,3000], send interval > 0) is missing.
NoExitWhileCriticalMissing ==
    [][(pc = "run" /\ configMode /\ pc' = "run" /\ ~configMode')
       => ~CriticalFieldMissing']_vars

\* the critical fields as the store holds them
PersistedCriticalMissing ==
    \/ preferences.wifi_ssid = ""
    \/ storedDefaultIdTag(St) = ""
    \/ ~WheelInRange(getNum(preferences.wheel_size, DefaultWheelSize))
    \/ getNum(preferences.sendInterval, DefaultSendInterval) = 0

\* C3: when the ConfigMode timeout expires and a critical field is missing
\* (SSID empty, default rider id empty, wheel size outside [500,3000], send
\* interval 0), the device stays in ConfigMode, the timeout clock is reset
\* to the current time and there is no restart.
TimeoutRearmsWhenMissing ==
    (TimeoutChecked /\ PersistedCriticalMissing)
    => (pc = "run" /\ configMode /\ configModeStartTime = now)

\* C4: when the ConfigMode timeout expires and all critical fields are
\* present (SSID and default rider id non-empty, wheel size in range, the
\* send interval in effect > 0), the device leaves ConfigMode in that pass:
\* config reloaded, access point down, WiFi connect attempted, lastSentIdTag
\* cleared, NormalMode.
TimeoutLeavesWhenPresent ==
    (TimeoutChecked /\ ~PersistedCriticalMissing)
    => /\ Issued("exit_timeout")
       /\ pc = "run" /\ ~configMode /\ ~apActive
       /\ wifi_ssid = preferences.wifi_ssid
       /\ wifiConnectAttempts > 0 \/ wifiStatus = "WL_CONNECTED"
       /\ lastSentIdTag = ""

\* C5: every pass of loop() in ConfigMode that finds the hardware pulse
\* counter > 0 leaves ConfigMode for NormalMode in that pass, forced or not,
\* and clears lastSentIdTag.
PulseLeavesConfigMode ==
    [][(Loop /\ configMode /\ pcnt > 0 /\ pc' = "run")
       => (~configMode' /\ lastSentIdTag' = "")]_vars

\* C6: the tag-change exit from ConfigMode fires only when an RFID tag was
\* presented since ConfigMode was entered; saving a default rider id in the
\* configuration UI does not take this exit.
TagExitOnlyAfterTag == Issued("exit_tag_change") => tagPresented

\* C7: no data send carries an id_tag together with pulses counted under
\* another rider id: the counters are zeroed for the new id before any send
\* under it.
SendCarriesOwnPulses ==
    \A i \in Sends : calls[i].id_tag = calls[i].owner

\* C8: a data send is attempted only with interval distance > 0 and with a
\* display name that the backend resolved for the rider id being sent, not
\* one resolved for an earlier rider id.
SendOnlyForResolvedRider ==
    \A i \in Sends : calls[i].pulses > 0 /\ calls[i].nameFor = calls[i].id_tag

\* C9: pulses that came while no valid rider was resolved, or while the
\* API-key error was active, are in no later data send.
SendWithoutBlockedPulses ==
    \A i \in Sends : calls[i].blocked = 0

\* C10: a config fetch leaves default rider id, server URL, API key, AP
\* password, send interval, wheel size and fetch interval as they were, in
\* memory and in the store, when the incoming value is empty or 0, and it
\* never makes one of them empty or 0.
FetchKeepsOnEmpty ==
    [][(fetched' # fetched) =>
       /\ (fetched'.default_id_tag = "")
          => /\ idTag' = idTag
             /\ preferences'.default_id_tag = preferences.default_id_tag
             /\ preferences'.idTag = preferences.idTag
       /\ (fetched'.server_url = "")
          => serverUrl' = serverUrl
             /\ preferences'.serverUrl = preferences.serverUrl
       /\ (fetched'.device_api_key = "")
          => apiKey' = apiKey /\ preferences'.apiKey = preferences.apiKey
       /\ (fetched'.ap_password = "")
          => preferences'.ap_passwd = preferences.ap_passwd
       /\ (fetched'.send_interval_seconds = 0)
          => sendInterval_sec' = sendInterval_sec
             /\ preferences'.sendInterval = preferences.sendInterval
       /\ (fetched'.wheel_size = 0)
          => wheel_size' = wheel_size
             /\ preferences'.wheel_size = preferences.wheel_size
       /\ (fetched'.config_fetch_interval_seconds = 0)
          => configFetchInterval_sec' = configFetchInterval_sec
             /\ preferences'.cfg_fetch_int = preferences.cfg_fetch_int
       /\ idTag' # "" /\ serverUrl' # "" /\ apiKey' # ""
       /\ preferences'.default_id_tag # "" /\ preferences'.serverUrl # ""
       /\ preferences'.apiKey # ""
       /\ preferences.ap_passwd # "" => preferences'.ap_passwd # ""
       /\ sendInterval_sec' # 0 /\ preferences'.sendInterval # 0
       /\ wheel_size' # 0 /\ preferences'.wheel_size # 0
       /\ configFetchInterval_sec' # 0 /\ preferences'.cfg_fetch_int # 0]_vars
\* a response with every one of these fields empty or 0 has been applied
FetchKeepsOnEmptyWitness ==
    /\ fetched.default_id_tag = "" /\ fetched.server_url = ""
    /\ fetched.device_api_key = "" /\ fetched.ap_password = ""
    /\ fetched.send_interval_seconds = 0 /\ fetched.wheel_size = 0
    /\ fetched.config_fetch_interval_seconds = 0
    /\ idTag = "D1" /\ sendInterval_sec = DefaultSendInterval
    /\ preferences.ap_passwd = "oldpasswd"


\* C11: a fetched deep_sleep_seconds (0 included), debug_mode or test_mode
\* (false included) becomes the local value, and with the timeout at 0,
\* fetched or stored, no step puts the device into deep sleep
FetchSetsSleepAndModes ==
    [][/\ (fetched' # fetched /\ fetched'.deep_sleep_seconds # NoArg)
          => deepSleepTimeout_sec' = fetched'.deep_sleep_seconds
       /\ (fetched' # fetched /\ fetched'.debug_mode # NoArg)
          => debugEnabled' = (fetched'.debug_mode = 1)
       /\ (fetched' # fetched /\ fetched'.test_mode # NoArg)
          => testActive' = (fetched'.test_mode = 1)
       /\ (fetched.deep_sleep_seconds = 0 \/ deepSleepTimeout_sec = 0)
          => pc' # "sleep"]_vars
\* deep sleep switched off by a fetch, and a pass of loop() made when the
\* former timeout was over
FetchSetsSleepAndModesWitness ==
    /\ pc = "run" /\ fetched.deep_sleep_seconds = 0
    /\ fetched.debug_mode = 0 /\ ~debugEnabled
    /\ fetched.test_mode = 0 /\ ~testActive
    /\ deepSleepTimeout_sec = 0 /\ preferences.deep_sleep = 0
    /\ lastDataSendTime = now
    /\ now - lastPulseTime >= DefaultDeepSleepTimeout * 1000

\* C12: a fetched device_api_key becomes the active key, in memory and in
\* the store, exactly when the test request made with it returned HTTP 200;
\* otherwise the active key stays what it was in both places
KeyReplacedOnlyAfterTest ==
    [][fetched' # fetched =>
         IF /\ fetched'.device_api_key \notin {NoStr, ""}
            /\ keyTest'.key = fetched'.device_api_key
            /\ keyTest'.code = 200
         THEN /\ apiKey' = fetched'.device_api_key
              /\ preferences'.apiKey = fetched'.device_api_key
         ELSE /\ apiKey' = apiKey
              /\ preferences'.apiKey = preferences.apiKey]_vars
\* a fetched key whose test was answered 401 and the former key still active
KeyReplacedOnlyAfterTestWitness ==
    /\ fetched.device_api_key = "key2"
    /\ keyTest = [key |-> "key2", code |-> 401]
    /\ apiKey = "key1" /\ preferences.apiKey = "key1"

\* C13: the device name, in memory and in the store, is changed by no
\* config fetch; the stored name changes only in a step that serves a save
\* of the local UI, the name in memory only there or when it is loaded
DeviceNameOnlyFromUI ==
    [][/\ (fetched' # fetched /\ ~Issued("save")')
          => /\ preferences'.deviceName = preferences.deviceName
             /\ (pc = "run" /\ pc' = "run") => deviceName' = deviceName
       /\ preferences'.deviceName # preferences.deviceName => Issued("save")'
       /\ (pc = "run" /\ pc' = "run" /\ deviceName' # deviceName)
          => Issued("save")']_vars
\* a name saved in the UI is still the name after a fetch whose response
\* carried another device name
DeviceNameOnlyFromUIWitness ==
    /\ pc = "run" /\ fetched.device_name = "srvname"
    /\ deviceName = "bike2" /\ preferences.deviceName = "bike2"

\* C14: the persisted default rider id (default_id_tag and the legacy idTag
\* key) never holds an id read from a tag, and a pass of loop() that serves
\* no save and applies no fetch leaves both keys as they were
\* (but for the copy of the legacy key that getPreferences() makes)
TagScanNotPersisted ==
    [][/\ preferences'.default_id_tag \notin TagIds
       /\ preferences'.idTag \notin TagIds
       /\ (pc = "run" /\ pc' = "run" /\ ~Issued("save")' /\ fetched' = fetched)
          => /\ preferences'.idTag = preferences.idTag
             /\ preferences'.default_id_tag
                  \in {preferences.default_id_tag, preferences.idTag}]_vars
\* a tag id adopted as the active rider in NormalMode, the default untouched
TagScanNotPersistedWitness ==
    /\ pc = "run" /\ ~configMode /\ tagPresented
    /\ idTag \in TagIds /\ lastSentIdTag = idTag
    /\ preferences.default_id_tag = "D1" /\ preferences.idTag = "D1"

\* the requests of the last step that are data sends, config fetches or
\* rider-name queries
DataPlaneCalls ==
    {i \in 1..Len(calls) : calls[i].op \in {"send", "fetch", "getuser"}}

\* C15: a data send, config fetch or rider-name query made while
\* apiKeyErrorActive is set is a rider-name query made when the 60 s backoff
\* is over
QuietWhileKeyError ==
    \A i \in DataPlaneCalls :
        calls[i].apiKeyError
        => /\ calls[i].op = "getuser"
           /\ calls[i].errorAge >= serverErrorBackoffInterval

\* the answers to rider-name queries and data sends among the calls cs
Answers(cs) ==
    {i \in 1..Len(cs) : cs[i].op \in {"getuser_answer", "send_answer"}}
\* apiKeyErrorActive along the calls cs of a step that began with the value
\* before and ended with the value after: it changes only where a request
\* is answered, is set only by an answer 401/403, and cleared only by an
\* answer that Success accepts and then together with lastServerErrorTime
KeyErrorFollowsAnswers(before, cs, after, Success(_)) ==
    LET as == Answers(cs)
        prev(i) == IF \E k \in as : k < i
                   THEN cs[CHOOSE k \in as :
                              k < i /\ \A m \in as : m < i => m <= k].apiKeyError
                   ELSE before
    IN /\ \A i \in as :
             /\ cs[i].keyErrorBefore = prev(i)
             /\ (~cs[i].keyErrorBefore /\ cs[i].apiKeyError)
                => cs[i].code \in {401, 403}
             /\ (cs[i].keyErrorBefore /\ ~cs[i].apiKeyError)
                => Success(cs[i]) /\ cs[i].errorAge = NoArg
       /\ after = prev(Len(cs) + 1)
IsHttp200(c) == c.code = 200
IsHttp2xx(c) == c.code = 200 \/ (c.op = "send_answer" /\ c.code \in 200..299)

BackoffAfterServerError ==
    \A i \in 1..Len(calls) :
        (/\ calls[i].op \in {"send", "getuser"}
         /\ calls[i].errorAge # NoArg
         /\ calls[i].errorOp = calls[i].op)
        => calls[i].errorAge >= serverErrorBackoffInterval

\* C18: wifiConnectAttempts is always within 0..3, it is 0 after every pass
\* in which a connection attempt succeeded, and a pass of loop() in
\* NormalMode that begins with the counter at 3 makes no connection attempt
AttemptsCapped ==
    [][/\ wifiConnectAttempts' \in 0..MaxWifiAttempts
       /\ (pc' = "run" /\ Issued("connect")' /\ wifiStatus' = "WL_CONNECTED")
          => wifiConnectAttempts' = 0
       /\ (pc = "run" /\ ~configMode /\ wifiConnectAttempts >= MaxWifiAttempts)
          => ~Issued("connect")']_vars
\* three failed attempts, and a later pass of loop() that made none
AttemptsCappedWitness ==
    /\ pc = "run" /\ ~configMode /\ wifiStatus # "WL_CONNECTED"
    /\ wifiConnectAttempts = MaxWifiAttempts
    /\ now > SetupMillis /\ lastDataSendTime = now /\ calls = <<>>

\* C19: when a pass of loop() in NormalMode makes a connection attempt and
\* the pass before made one as well (the counter at 2 or more: the attempt
\* of setup() is not counted as a reconnect), at least RECONNECT_INTERVAL_MS
\* lie between the two, the time the first attempt blocked counted in
ReconnectSpaced ==
    [][(/\ pc = "run" /\ ~configMode /\ Issued("connect")
        /\ wifiConnectAttempts >= 2
        /\ pc' = "run" /\ Issued("connect")')
       => (now' - now) + ConnectBlockMillis >= RECONNECT_INTERVAL_MS]_vars

\* the requests a connect is followed by
ConnectOps == {"report", "fetch", "fwcheck", "heartbeat"}
IsConnectOp(c) == c.op \in ConnectOps
\* the index behind the calls that connectToWiFi() made after the
\* connection recorded at index i
ConnectEnd(i) ==
    IF \E j \in (i + 1)..Len(calls) : calls[j].op = "connect_return"
    THEN CHOOSE j \in (i + 1)..Len(calls) :
             /\ calls[j].op = "connect_return"
             /\ \A k \in (i + 1)..(j - 1) : calls[k].op # "connect_return"
    ELSE Len(calls) + 1
ConnectCalls(i) == SelectSeq(SubSeq(calls, i + 1, ConnectEnd(i) - 1), IsConnectOp)
\* what connectToWiFi() is to issue, the report having returned reported
ConnectOrder(reported) ==
    <<"report">> \o (IF reported THEN <<"fetch">> ELSE <<>>) \o <<"fwcheck">>
    \o (IF wakeup_reason # "EXT0" THEN <<"heartbeat">> ELSE <<>>)
\* the calls of every connect of the last step are in order, and every
\* report of the step is the one report of a connect
ConnectCallsInOrder ==
    /\ \A i \in 1..Len(calls) :
           calls[i].op = "connected"
           => LET cs == ConnectCalls(i)
              IN /\ Len(cs) > 0 /\ cs[1].op = "report"
                 /\ [k \in 1..Len(cs) |-> cs[k].op] = ConnectOrder(cs[1].code = 1)
    /\ \A k \in 1..Len(calls) :
           calls[k].op = "report"
           => \E i \in 1..(k - 1) :
                  calls[i].op = "connected" /\ k < ConnectEnd(i)

\* C20 as stated: every connect is followed by report, fetch (if the report
\* succeeded), firmware check, heartbeat (unless the boot was a wake from
\* deep sleep), in this order; a report is made once per connect and nowhere
\* else; no heartbeat is sent when the boot was a wake from deep sleep
ConnectSequence ==
    pc = "run" =>
        /\ ConnectCallsInOrder
        /\ \A k \in 1..Len(calls) :
               calls[k].op = "heartbeat" => wakeup_reason # "EXT0"
\* C20 amended: the order and the one report per connect as above, for the
\* calls connectToWiFi() makes; a heartbeat on a boot that was a wake from
\* deep sleep is the one setup() sends after connectToWiFi() has returned
ConnectSequenceInConnect ==
    pc = "run" =>
        /\ ConnectCallsInOrder
        /\ \A k \in 1..Len(calls) :
               (calls[k].op = "heartbeat" /\ wakeup_reason = "EXT0")
               => \E j \in 1..(k - 1) : calls[j].op = "connect_return"
\* a reconnect in loop() after a wake from deep sleep: report, fetch and
\* firmware check, no heartbeat
ConnectSequenceInConnectWitness ==
    /\ pc = "run" /\ wakeup_reason = "EXT0" /\ wifiDrops > 0
    /\ \E i \in 1..Len(calls) :
           /\ calls[i].op = "connected"
           /\ [k \in 1..Len(ConnectCalls(i)) |-> ConnectCalls(i)[k].op]
                = <<"report", "fetch", "fwcheck">>

\* C21: on a boot that was a wake from deep sleep, no config fetch is issued
\* before the first heartbeat of that boot
HeartbeatBeforeFetch ==
    (/\ pc = "run" /\ wakeup_reason = "EXT0"
     /\ \E h \in 1..Len(calls) : calls[h].op = "heartbeat")
    => \A k \in 1..Len(calls) :
           calls[k].op = "fetch"
           => \E h \in 1..(k - 1) : calls[h].op = "heartbeat"

\* C22: the device goes to deep sleep only from a pass of loop() in
\* NormalMode whose check found deepSleepTimeout_sec > 0, at least that many
\* seconds since lastPulseTime and the sensor line HIGH; a check that found
\* the line LOW does not sleep and sets lastPulseTime to the current time
SleepOnlyWhenIdle ==
    [][/\ (pc # "sleep" /\ pc' = "sleep")
          => /\ pc = "run"
             /\ ~sleepCheck'.configMode
             /\ sleepCheck'.timeout > 0
             /\ sleepCheck'.idle >= sleepCheck'.timeout * 1000
             /\ sleepCheck'.pin = "HIGH"
       /\ sleepCheck'.pin = "LOW"
          => (pc' = "run" /\ lastPulseTime' = now')]_vars
SleepOnlyWhenIdleWitness ==
    /\ pc = "sleep" /\ sleepCheck.pin = "HIGH" /\ sleepCheck.timeout > 0
    /\ sleepCheck.idle >= sleepCheck.timeout * 1000

\* the wheel size the store holds
PersistedWheelSize == getNum(preferences.wheel_size, DefaultWheelSize)
\* the config fetches among the calls cs
Fetches(cs) == {i \in 1..Len(cs) : cs[i].op = "fetch"}
\* C23: with the wheel size in memory and in the store within [500,3000],
\* every step, a UI save and a config fetch included, leaves both within
\* [500,3000]; a save or a fetch that submits a value out of range changes
\* neither
WheelStaysInRange ==
    [][(WheelInRange(wheel_size) /\ WheelInRange(PersistedWheelSize))
       => /\ WheelInRange(wheel_size') /\ WheelInRange(PersistedWheelSize')
          /\ (/\ pc' = "run" /\ Fetches(calls') = {}
              /\ saved'.wheel_size # NoArg /\ ~WheelInRange(saved'.wheel_size))
             => (wheel_size' = wheel_size
                 /\ preferences'.wheel_size = preferences.wheel_size)
          /\ (/\ pc' = "run" /\ saved' = NoForm
              /\ Cardinality(Fetches(calls')) = 1 /\ fetched' # fetched
              /\ fetched'.wheel_size # NoArg
              /\ ~WheelInRange(fetched'.wheel_size))
             => (wheel_size' = wheel_size
                 /\ preferences'.wheel_size = preferences.wheel_size)]_vars
\* a wheel size of 3001 was fetched by a device that holds the wheel size
\* 500 that was saved through the UI
WheelStaysInRangeWitness ==
    /\ pc = "run" /\ Cardinality(Fetches(calls)) = 1
    /\ fetched.wheel_size = 3001
    /\ wheel_size = 500 /\ preferences.wheel_size = 500

\* C24: the store never holds the send interval 0
SendIntervalNeverZero == preferences.sendInterval # 0

\* C25: an HTTP 404 answer to a rider query leaves the rider unresolved
\* (username "NULL" for that id) and is no server error: when the code has
\* acted on it, no server error dates from that moment, so no backoff holds
\* up the query for the next rider id
NotFoundIsNoServerError ==
    \A i \in 1..Len(calls) :
        (calls[i].op = "getuser_answer" /\ calls[i].code = 404)
        => /\ calls[i].nameFor = calls[i].id_tag
           /\ calls[i].errorAge # 0

\* the answers to rider queries among the calls cs
UserAnswers(cs) == {i \in 1..Len(cs) : cs[i].op = "getuser_answer"}
\* a query that failed: a transport error, an HTTP error other than 404, or
\* HTTP 200 with a body that cannot be parsed
FailedQuery(c) ==
    \/ c.code <= 0
    \/ c.code \notin {200, 404}
    \/ c.code = 200 /\ c.body = "bad_json"
\* C26: a step in which every rider query was left out or failed leaves the
\* resolved name as it was, and so makes no unresolved rider a valid one
FailedQueryKeepsName ==
    [][(pc' = "run" /\ \A i \in UserAnswers(calls') : FailedQuery(calls'[i]))
       => /\ username' = username
          /\ ~validName(username) => ~validName(username')]_vars

\* C30: for an HTTP 200 answer to a rider query getUserIdFromTag() returns
\* the user_id of the body if it has one ("NULL" included), "NULL" for a
\* well-formed body without user_id and "FEHLER" for a body that cannot be
\* parsed
UserIdInterpreted ==
    \A i \in UserAnswers(calls) :
        calls[i].code = 200
        => CASE calls[i].body = "user_id" ->
                    calls[i].ret \in Names \cup {"NULL"}
             [] calls[i].body = "no_user_id" -> calls[i].ret = "NULL"
             [] calls[i].body = "bad_json" -> calls[i].ret = "FEHLER"
             [] OTHER -> FALSE

\* C27: between two passes of loop() the cumulative distance is the counted
\* pulses times the wheel size in effect, also when a config fetch or a UI
\* save has changed the wheel size
DistanceIsCountTimesWheel ==
    pc = "run" => totalDistance_mm = lastPulseCount * wheel_size

\* C28: a pass of loop() in NormalMode that finds the last counted pulse at
\* least 5 s back and no new pulse leaves the current speed 0 and the speed
\* history empty
SpeedZeroWhenIdle ==
    [][(/\ Loop /\ ~configMode /\ pc' = "run" /\ ~configMode'
        /\ lastPulseTime > 0 /\ now - lastPulseTime >= SPEED_TIMEOUT_MS
        /\ pcnt = lastPulseCount)
       => (currentSpeed_kmh' = 0 /\ speedHistoryCount' = 0)]_vars

\* the configuration as setup() has it when it makes the check
Loaded == getPreferences(St)
\* the five fields the check reads besides the wheel size
OtherCriticalMissing ==
    \/ Loaded.wifi_ssid = "" \/ storedDefaultIdTag(Loaded) = ""
    \/ Loaded.serverUrl = "" \/ Loaded.apiKey = ""
    \/ Loaded.sendInterval_sec = 0
MissingForcesConfigMode ==
    [][(pc = "boot" /\ pc' = "run" /\ configModeForced')
       => (configMode' /\ apActive')]_vars

\* the store was written under key in the last step
Written(key) ==
    \E i \in 1..Len(calls) : calls[i].op = "put" /\ calls[i].id_tag = key
\* C32: a fetch that carries a valid value writes it to the store and takes
\* it over exactly if it differs from the value in effect: no write for an
\* unchanged wheel size, send interval or API key (the key having passed
\* its test), a write for every other value
WriteOnlyOnChange ==
    [][fetched' # fetched =>
         /\ WheelInRange(fetched'.wheel_size)
            => /\ Written("wheel_size")' <=> fetched'.wheel_size # wheel_size
               /\ wheel_size' = fetched'.wheel_size
         /\ (fetched'.send_interval_seconds # NoArg
             /\ fetched'.send_interval_seconds > 0)
            => /\ Written("sendInterval")'
                    <=> fetched'.send_interval_seconds # sendInterval_sec
               /\ sendInterval_sec' = fetched'.send_interval_seconds
         /\ (fetched'.device_api_key \notin {NoStr, ""} /\ keyTest'.code = 200)
            => /\ Written("apiKey")' <=> fetched'.device_api_key # apiKey
               /\ apiKey' = fetched'.device_api_key]_vars

\* C33: the rider-change branch plays the confirmation cue only for a rider
\* id that did not come from an RFID scan, and idTagFromRFID is true when
\* the rider id in effect is the one the reader has read in this pass
CueUnlessScanned ==
    /\ \A i \in 1..Len(calls) :
           calls[i].op = "cue"
           => ~\E j \in 1..(i - 1) :
                  calls[j].op = "rfid" /\ calls[j].id_tag = calls[i].id_tag
    /\ (pc = "run" /\ \E j \in 1..Len(calls) :
                         calls[j].op = "rfid" /\ calls[j].id_tag = idTag)
       => idTagFromRFID

\* C34: a pass of loop() whose data send found no WiFi connection (result
\* -1) leaves lastDataSendTime as it was, so that the next pass tries again
SendTimeKeptWithoutWifi ==
    [][(pc' = "run" /\ Issued("send_nowifi")')
       => lastDataSendTime' = lastDataSendTime]_vars

\* C35: while apiKeyErrorActive holds in NormalMode with WiFi connected, a
\* request is issued once the backoff period is over (or the flag has been
\* cleared), whatever the test-mode flag and the send interval are; the
\* condition is taken while the clock can still advance by a period
KeyErrorPending ==
    /\ pc = "run" /\ ~configMode /\ apiKeyErrorActive
    /\ wifiStatus = "WL_CONNECTED"
    /\ \E d \in Deltas : now + d <= MaxTime
ProbeIssued ==
    /\ \A d \in Deltas : now + d > MaxTime
    /\ Issued("getuser") \/ Issued("send")
KeyErrorProbed == KeyErrorPending ~> (ProbeIssued \/ ~apiKeyErrorActive)

\* the data sends of a step that were answered with a 2xx status
AcceptedSends(cs) ==
    {i \in 1..Len(cs) : cs[i].op = "send_answer" /\ cs[i].code \in 200..299}
\* C36: between two rider changes every counted pulse is in exactly one
\* successful data send: pulsesAtLastSend never exceeds the pulses counted;
\* a pass of loop() whose send was answered 2xx advances it by the pulses of
\* that send, to the pulses counted; every other pass leaves it as it is, or
\* zeroes the counters for a new rider
PulsesSentOnce ==
    /\ [](pulsesAtLastSend >= 0 /\ pulsesAtLastSend <= currentPulseCount)
    /\ [][(pc = "run" /\ pc' = "run")
          => IF AcceptedSends(calls') # {}
             THEN /\ \E i \in 1..Len(calls') :
                         /\ calls'[i].op = "send" /\ calls'[i].pulses > 0
                         /\ pulsesAtLastSend'
                              = pulsesAtLastSend + calls'[i].pulses
                  /\ pulsesAtLastSend' = currentPulseCount'
             ELSE \/ pulsesAtLastSend' = pulsesAtLastSend
                  \/ pulsesAtLastSend' = 0 /\ currentPulseCount' = 0]_vars
\* a second successful send has carried the pulse counted after the first
PulsesSentOnceWitness ==
    /\ pc = "run" /\ AcceptedSends(calls) # {}
    /\ \E i \in 1..Len(calls) : calls[i].op = "send" /\ calls[i].pulses = 1
    /\ pulsesAtLastSend = MaxTurns /\ currentPulseCount = MaxTurns

\* C37: whenever loop() is about to run, deep sleep is enabled (the guard of
\* the deep-sleep check can pass once the idle time is reached) exactly when
\* deepSleepTimeout_sec > 0, whatever loads, saves and fetches came before
SleepEnabledIffTimeout ==
    pc = "run" => ((deepSleepTimeout_sec > 0 /\ DeepSleep)
                   <=> deepSleepTimeout_sec > 0)

\* C38: a device that has left ConfigMode enters deep sleep only when it
\* has been in NormalMode for at least deepSleepTimeout_sec seconds
AwakeAfterConfigMode ==
    [][(pc = "run" /\ pc' = "sleep" /\ normalSince > 0)
       => now - normalSince >= deepSleepTimeout_sec * 1000]_vars

\* the guard of the deep-sleep check passes and WiFi is connected
IdleThresholdReached ==
    /\ pc = "run" /\ ~configMode /\ wifiStatus = "WL_CONNECTED"
    /\ deepSleepTimeout_sec > 0 /\ DeepSleep
    /\ now - lastPulseTime >= deepSleepTimeout_sec * 1000
\* C39: once the idle threshold is reached with WiFi connected, the device
\* enters deep sleep, unless the sensor line is found LOW or the connection
\* is lost, also when the server offers an update whose download fails
SleepDespiteFailedUpdate ==
    IdleThresholdReached
        ~> (pc = "sleep" \/ sleepCheck.pin = "LOW"
            \/ wifiStatus # "WL_CONNECTED")

\* C40: the default_id_tag of every config report is the persisted default
\* rider id, also in the report made by the connect that follows a
\* tag-change exit from ConfigMode
ReportCarriesStoredDefault ==
    \A i \in 1..Len(calls) :
        calls[i].op = "report" => calls[i].id_tag = storedDefaultIdTag(St)

=============================================================================
